---- MODULE Spec2Model ----
(***************************************************************************)
(* BlockHead (server.js): site lifecycle and process supervision.          *)
(*                                                                         *)
(* The Express handlers are modelled as they run on Node's event loop: the *)
(* synchronous code between two awaits is one atomic step, and at every    *)
(* await the handler yields, so steps of other requests may interleave.    *)
(* External tools (git, npm, pip, the enable script, kill, spawn) are      *)
(* nondeterministic outcomes.                                              *)
(***************************************************************************)
EXTENDS Integers, Sequences, FiniteSets, TLC

\* ------------------------------------------------------------------ bounds
MaxRequests == 2     \* requests received over a run

\* ------------------------------------------------------------------ inputs
ValidDomains == {"a.test", "b.test"}
BadDomains == {"a;b"}
DomainInputs == ValidDomains \cup BadDomains
Roots == {"/srv/r1", "/srv/r2"}
NoPort == 0

\* The port field of a form is text, here the sequence of its digits; an
\* empty field is the empty text.
NoPortText == <<>>

\* Number(port): the value of decimal text (of the empty text, 0).
RECURSIVE Number(_)
Number(text) ==
  IF text = <<>> THEN 0
  ELSE 10 * Number(SubSeq(text, 1, Len(text) - 1)) + text[Len(text)]

\* The text that a number becomes in a child's environment (spawn passes
\* every value of env as text): its decimal digits, none for an unset port.
RECURSIVE PortText(_)
PortText(n) ==
  IF n = 0 THEN <<>> ELSE Append(PortText(n \div 10), n % 10)
NoCmd == ""
RunCmdInputs == {NoCmd, "cmd2"}

\* The slots in which requests are handled: two requests can be in flight
\* at the same time.
Reqs == {1, 2}

\* The characters of each domain input, for the regular expression test.
DomainChars(d) ==
  CASE d = "a.test" -> <<"a", ".", "t", "e", "s", "t">>
    [] d = "b.test" -> <<"b", ".", "t", "e", "s", "t">>
    [] d = "a;b" -> <<"a", ";", "b">>
    [] OTHER -> <<>>

AllowedChars ==
  {"a", "b", "c", "d", "e", "f", "g", "h", "i", "j", "k", "l", "m", "n", "o",
   "p", "q", "r", "s", "t", "u", "v", "w", "x", "y", "z", "A", "B", "C", "D",
   "E", "F", "G", "H", "I", "J", "K", "L", "M", "N", "O", "P", "Q", "R", "S",
   "T", "U", "V", "W", "X", "Y", "Z", "0", "1", "2", "3", "4", "5", "6", "7",
   "8", "9", ".", "-"}

\* /^[A-Za-z0-9.-]+$/.test(domain)
isValidDomain(d) ==
  /\ Len(DomainChars(d)) > 0
  /\ \A i \in 1..Len(DomainChars(d)) : DomainChars(d)[i] \in AllowedChars

\* ------------------------------------------------------- working trees
\* What the handlers look at in a site's root: package.json,
\* requirements.txt and the Python entry scripts app.py / main.py.
NoEntry == "none"

\* A root directory is absent, an empty directory, a non-empty directory
\* that is nobody's clone ("stale"), or a cloned working tree.
Absent == [kind |-> "absent"]
EmptyDir == [kind |-> "empty"]
StaleDir == [kind |-> "stale"]
Cloned(t) == [kind |-> "tree", tree |-> t]

hasPkg(rs) == rs.kind = "tree" /\ rs.tree.pkg
hasReq(rs) == rs.kind = "tree" /\ rs.tree.req
\* candidates.find(f => fs.existsSync(path.join(root, f))) || null
pythonEntryOf(rs) == IF rs.kind = "tree" THEN rs.tree.entry ELSE NoEntry

\* A repository URL stands for the tree a clone of it yields.
Repos == {"git/static", "git/node", "git/py", "git/pylib", "git/nodepy"}
RepoTree(repo) ==
  CASE repo = "git/static" -> [pkg |-> FALSE, req |-> FALSE, entry |-> NoEntry]
    [] repo = "git/node" -> [pkg |-> TRUE, req |-> FALSE, entry |-> NoEntry]
    [] repo = "git/py" -> [pkg |-> FALSE, req |-> TRUE, entry |-> "app.py"]
    [] repo = "git/pylib" -> [pkg |-> FALSE, req |-> TRUE, entry |-> NoEntry]
    [] repo = "git/nodepy" -> [pkg |-> TRUE, req |-> TRUE, entry |-> "main.py"]

\* The trees a pull may bring: upstream may have changed since the clone.
PullTrees == {RepoTree(repo) : repo \in Repos}

\* The request bodies submitted to POST /new.
NewForms ==
  { [domain |-> "a.test", repo |-> "git/node", root |-> "/srv/r1",
     port |-> <<3, 0, 0, 1>>, cmd |-> NoCmd, overwrite |-> FALSE],
    [domain |-> "a.test", repo |-> "git/py", root |-> "/srv/r1",
     port |-> NoPortText, cmd |-> NoCmd, overwrite |-> TRUE],
    [domain |-> "a.test", repo |-> "git/nodepy", root |-> "/srv/r1",
     port |-> NoPortText, cmd |-> "cmd1", overwrite |-> FALSE],
    [domain |-> "b.test", repo |-> "git/static", root |-> "/srv/r2",
     port |-> NoPortText, cmd |-> NoCmd, overwrite |-> FALSE],
    [domain |-> "b.test", repo |-> "git/pylib", root |-> "/srv/r2",
     port |-> <<3, 0, 0, 1>>, cmd |-> NoCmd, overwrite |-> FALSE],
    [domain |-> "b.test", repo |-> "git/node", root |-> "/srv/r1",
     port |-> <<0, 3, 0, 0, 1>>, cmd |-> "cmd1", overwrite |-> TRUE],
    [domain |-> "a;b", repo |-> "git/static", root |-> "/srv/r2",
     port |-> NoPortText, cmd |-> NoCmd, overwrite |-> FALSE] }

\* ------------------------------------------------------------------ state
VARIABLES
  sitesFile,     \* sites.json: the persisted list of site records
  runningProcs,  \* domain -> tracked child (index into children), or NoChild
  children,      \* every child process spawned so far, in spawn order
  killCalled,    \* children whose process group process.kill was called on
  signalled,     \* children whose process group the signal reached
  rootDir,       \* root path -> state of that directory
  parentDir,     \* the roots' parent directory: missing, readonly, writable
  configs,       \* generated_configs/<domain>, or NoConfig
  sslFiles,      \* the files present in the ssl directory
  rendered,      \* history: every call of the renderer, inputs and output
  req,           \* request slot -> the handler running in it
  arrivals,      \* number of requests received so far
  cachedSites,   \* the list loadSites last parsed or saveSites last wrote
  malformed,     \* sites.json no longer parses
  errored,       \* children whose 'error' event has been emitted and logged
  listing,       \* the handler of GET / and the probes it has started
  logs,          \* the in-memory log store served by GET /logs
  logged,        \* history: every entry ever logged, in call order
  exited         \* children whose process has exited on its own

vars == <<sitesFile, runningProcs, children, killCalled, signalled, rootDir,
          parentDir, configs, sslFiles, rendered, req, arrivals, cachedSites,
          malformed, errored, listing, logs, logged, exited>>

NoChild == 0
NoConfig == <<>>

\* No GET / is being handled.
NoListing == [pc |-> "idle", sites |-> <<>>, probes |-> <<>>, statuses |-> <<>>]

\* A request slot: the handler's position, its inputs (req.body), its local
\* variables (sites is the list it loaded when it began), the side effects
\* it has performed so far, the children it has spawned, the files it has
\* read, and the response
\* it sent (hint is the command a failure response tells the user to run,
\* error the message of the exception the response quotes).
Idle ==
  [op |-> "none", pc |-> "idle", domain |-> "", repo |-> "", root |-> "",
   port |-> NoPortText,
   cmd |-> NoCmd, overwrite |-> FALSE, sites |-> <<>>, eff |-> <<>>,
   spawned |-> <<>>, reads |-> <<>>, result |-> "", hint |-> <<>>,
   error |-> ""]

\* The handler called loadSites(): it has read sites.json and, when that
\* does not parse, the cached list.
Loaded(rq) ==
  [rq EXCEPT !.reads = @ \o IF malformed THEN <<"sites.json", "cachedSites">>
                                         ELSE <<"sites.json">>]

\* sites.find(s => s.domain === domain)
HasSite(sites, d) == \E i \in 1..Len(sites) : sites[i].domain = d
FindSite(sites, d) ==
  sites[CHOOSE i \in 1..Len(sites) :
          /\ sites[i].domain = d
          /\ \A j \in 1..(i - 1) : sites[j].domain # d]

\* sites.filter(s => s.domain !== domain)
RECURSIVE FilterOut(_, _)
FilterOut(sites, d) ==
  IF sites = <<>> THEN <<>>
  ELSE IF Head(sites).domain = d THEN FilterOut(Tail(sites), d)
       ELSE <<Head(sites)>> \o FilterOut(Tail(sites), d)

\* ------------------------------------------------------- config renderer
certPath(d) == <<"ssl", d, "crt">>
keyPath(d) == <<"ssl", d, "key">>

\* The server block(s) generateNginxConfig builds, one tuple per line.
ProxyRules(site) ==
  << <<"location / {">>,
     <<"proxy_pass http://127.0.0.1:", site.port>>,
     <<"proxy_set_header Host $host;">>,
     <<"proxy_set_header X-Real-IP $remote_addr;">>,
     <<"}">> >>

StaticRules(site) ==
  << <<"root", site.root>>,
     <<"index index.html index.htm;">>,
     <<"location / {">>,
     <<"try_files $uri $uri/ =404;">>,
     <<"}">> >>

RedirectBlock(site) ==
  << <<"server {">>,
     <<"listen 80;">>,
     <<"server_name", site.domain>>,
     <<"return 301 https://$host$request_uri;">>,
     <<"}">> >>

TlsBlockHead(site) ==
  << <<"server {">>,
     <<"listen 443 ssl;">>,
     <<"server_name", site.domain>>,
     <<"ssl_certificate", certPath(site.domain)>>,
     <<"ssl_certificate_key", keyPath(site.domain)>> >>

PlainBlockHead(site) ==
  << <<"server {">>,
     <<"listen 80;">>,
     <<"server_name", site.domain>> >>

\* A variant of the templates in which the proxy block also carries the
\* static-file rules.
configText_ProxyWithRoot(site, hasSsl) ==
  IF site.port # NoPort
  THEN IF hasSsl
       THEN RedirectBlock(site) \o TlsBlockHead(site) \o StaticRules(site)
              \o ProxyRules(site) \o << <<"}">> >>
       ELSE PlainBlockHead(site) \o StaticRules(site) \o ProxyRules(site)
              \o << <<"}">> >>
  ELSE IF hasSsl
       THEN RedirectBlock(site) \o TlsBlockHead(site) \o StaticRules(site)
              \o << <<"}">> >>
       ELSE PlainBlockHead(site) \o StaticRules(site) \o << <<"}">> >>

configText(site, hasSsl) ==
  IF site.port # NoPort
  THEN IF hasSsl
       THEN RedirectBlock(site) \o TlsBlockHead(site) \o ProxyRules(site)
              \o << <<"}">> >>
       ELSE PlainBlockHead(site) \o ProxyRules(site) \o << <<"}">> >>
  ELSE IF hasSsl
       THEN RedirectBlock(site) \o TlsBlockHead(site) \o StaticRules(site)
              \o << <<"}">> >>
       ELSE PlainBlockHead(site) \o StaticRules(site) \o << <<"}">> >>

\* ------------------------------------------------------------ the world
\* The state a synchronous stretch of handler code reads and writes, as a
\* record, so that helpers compose the way the calls do in the source.
\* eff is the log of side effects of the request that is running.
World(r) ==
  [sites |-> sitesFile, procs |-> runningProcs, children |-> children,
   killCalled |-> killCalled, signalled |-> signalled, configs |-> configs,
   ssl |-> sslFiles, rendered |-> rendered, eff |-> req[r].eff,
   spawned |-> req[r].spawned, cached |-> cachedSites,
   malformed |-> malformed, errored |-> errored]

Effect(w, tag) == [w EXCEPT !.eff = Append(@, tag)]

\* A variant of loadSites() that answers a file that does not parse with
\* the empty list.
loadSites_EmptyOnFailure == IF malformed THEN <<>> ELSE sitesFile

\* What loadSites() returns: the parsed file (an absent file counts as the
\* empty list), or the cached list when the file does not parse.
loadSites == IF malformed THEN cachedSites ELSE sitesFile

\* The world after a call of loadSites().
Load(w) == [w EXCEPT !.cached = IF w.malformed THEN w.cached ELSE w.sites]

\* fs.writeFileSync(DATA_FILE, JSON.stringify(sites, null, 2));
\* cachedSites = sites
saveSites(w, sites) ==
  Effect([w EXCEPT !.sites = sites, !.cached = sites, !.malformed = FALSE],
         "save")

\* What a call of the renderer read and what it wrote.
Rendering(site, hasSsl, text) ==
  [domain |-> site.domain, root |-> site.root, port |-> site.port,
   tls |-> hasSsl, text |-> text]

\* A variant of the renderer that heads the text with a line counting the
\* configs generated so far.
generateNginxConfig_Stamped(w, site) ==
  LET hasSsl == certPath(site.domain) \in w.ssl /\ keyPath(site.domain) \in w.ssl
      config == << <<"# generated", Len(w.rendered) + 1>> >>
                  \o configText(site, hasSsl)
  IN Effect([w EXCEPT !.configs[site.domain] = config,
                      !.rendered = Append(@, Rendering(site, hasSsl, config))],
            "render")

\* A variant of the renderer that takes the certificate file alone as
\* enough for the TLS blocks.
generateNginxConfig_CertOnly(w, site) ==
  LET hasSsl == certPath(site.domain) \in w.ssl
      config == configText(site, hasSsl)
  IN Effect([w EXCEPT !.configs[site.domain] = config,
                      !.rendered = Append(@, Rendering(site, hasSsl, config))],
            "render")

\* fs.writeFileSync(path.join(outputDir, site.domain), config)
generateNginxConfig(w, site) ==
  LET hasSsl == certPath(site.domain) \in w.ssl /\ keyPath(site.domain) \in w.ssl
      config == configText(site, hasSsl)
  IN Effect([w EXCEPT !.configs[site.domain] = config,
                      !.rendered = Append(@, Rendering(site, hasSsl, config))],
            "render")

\* ------------------------------------------------------ process supervisor
\* A variant of stopSiteCommand with the delete inside the try block: the
\* entry survives a kill that throws.
stopSiteCommand_KeepOnFail(w, domain, killOk) ==
  LET child == w.procs[domain] IN
  IF child # NoChild
  THEN LET threw == ~killOk
       IN [w EXCEPT !.killCalled = @ \cup {child},
                    !.signalled = IF threw THEN @ ELSE @ \cup {child},
                    !.procs[domain] = IF threw THEN @ ELSE NoChild,
                    !.eff = Append(@, IF threw THEN "kill_failed" ELSE "kill")]
  ELSE w

\* process.kill(-child.pid) throws (killOk = FALSE) when the pid is undefined
\* because the spawn failed, or when the operating system refuses; the
\* exception is caught and logged, and the entry is deleted either way.
stopSiteCommand(w, domain, killOk) ==
  LET child == w.procs[domain] IN
  IF child # NoChild
  THEN LET threw == ~killOk \/ child \in w.errored
       IN [w EXCEPT !.killCalled = @ \cup {child},
                    !.signalled = IF threw THEN @ ELSE @ \cup {child},
                    !.procs[domain] = NoChild,
                    !.eff = Append(@, IF threw THEN "kill_failed" ELSE "kill")]
  ELSE w

\* spawn(...) returns a child object whether or not the launch succeeds: a
\* failure arrives later as an 'error' event that is only logged.
NewChild(w, domain, via, cmd, cwd, port) ==
  [domain |-> domain, via |-> via, cmd |-> cmd, cwd |-> cwd, envPort |-> port]

Track(w, domain, child) ==
  [w EXCEPT !.children = Append(@, child),
            !.procs[domain] = Len(w.children) + 1,
            !.eff = Append(@, "spawn"),
            !.spawned = Append(@, Len(w.children) + 1)]

\* A variant of runSiteCommand that does not stop the tracked process before
\* it spawns the new one.
runSiteCommand_NoStop(w, domain, cmd, cwd, port, killOk) ==
  Track(w, domain, NewChild(w, domain, "runSiteCommand", cmd, cwd, port))

\* A variant of runSiteCommand without the final runningProcs[domain] = child:
\* the new child runs untracked.
runSiteCommand_NoRegister(w, domain, cmd, cwd, port, killOk) ==
  LET w1 == IF w.procs[domain] # NoChild
            THEN stopSiteCommand(w, domain, killOk)
            ELSE w
      w2 == Track(w1, domain,
                  NewChild(w1, domain, "runSiteCommand", cmd, cwd, port))
  IN [w2 EXCEPT !.procs[domain] = NoChild]

runSiteCommand(w, domain, cmd, cwd, port, killOk) ==
  LET w1 == IF w.procs[domain] # NoChild
            THEN stopSiteCommand(w, domain, killOk)
            ELSE w
  IN Track(w1, domain,
           NewChild(w1, domain, "runSiteCommand", cmd, cwd, port))

startApp(w, domain, cwd, port) ==
  Track(w, domain, NewChild(w, domain, "startApp", "npm start", cwd, port))

\* ------------------------------------------------------------ plumbing
Apply(w) ==
  /\ sitesFile' = w.sites
  /\ runningProcs' = w.procs
  /\ children' = w.children
  /\ killCalled' = w.killCalled
  /\ signalled' = w.signalled
  /\ configs' = w.configs
  /\ rendered' = w.rendered
  /\ cachedSites' = w.cached
  /\ malformed' = w.malformed
  /\ errored' = w.errored
  /\ UNCHANGED <<listing, logs, logged, exited>>

SameFiles ==
  UNCHANGED <<sitesFile, runningProcs, children, killCalled, signalled, configs,
              rendered, malformed, errored, logs, logged, exited>>

SameWorld == SameFiles /\ UNCHANGED <<cachedSites, listing>>

\* A stretch that calls loadSites() and writes nothing: a list that parsed
\* becomes the cached one.
LoadOnly == SameFiles /\ cachedSites' = loadSites /\ UNCHANGED listing

\* A stretch that writes nothing and calls loadSites() or returns before.
Reads(loads) == IF loads THEN LoadOnly ELSE SameWorld

\* The handler of slot r moves on to pc with effect log eff.
Goto(r, pc, eff) == req' = [req EXCEPT ![r].pc = pc, ![r].eff = eff]

\* The handler of slot r sends its response.
Reply(r, result, eff) ==
  req' = [req EXCEPT ![r].pc = "done", ![r].result = result, ![r].eff = eff]

\* The same, after a synchronous stretch that changed the world to w.
GotoW(r, pc, w) ==
  req' = [req EXCEPT ![r].pc = pc, ![r].eff = w.eff, ![r].spawned = w.spawned]

ReplyW(r, result, w) ==
  req' = [req EXCEPT ![r].pc = "done", ![r].result = result,
                     ![r].eff = w.eff, ![r].spawned = w.spawned]

\* "done" only holds a response for inspection: the program has no such
\* state, so the slot is released before any handler takes another step.
Quiet == \A q \in Reqs : req[q].pc # "done"

\* The handler of slot r is at pc and takes its next step.
At(r, pc) == Quiet /\ req[r].pc = pc

\* Slot r is the one the next request is handled in.
CanArrive(r) ==
  /\ At(r, "idle")
  /\ \A q \in Reqs : q < r => req[q].pc # "idle"
  /\ arrivals < MaxRequests

\* A request arrives at the free slot r.
Arrive(r) ==
  /\ CanArrive(r)
  /\ arrivals' = arrivals + 1

\* ------------------------------------------------------------------ Init
Init ==
  /\ sitesFile = <<>>
  /\ runningProcs = [d \in DomainInputs |-> NoChild]
  /\ children = <<>>
  /\ killCalled = {}
  /\ signalled = {}
  /\ parentDir \in {"missing", "readonly", "writable"}
  /\ rootDir \in [Roots -> {Absent, EmptyDir, StaleDir}]
  /\ rootDir["/srv/r2"] = Absent
  /\ (parentDir # "writable" => \A p \in Roots : rootDir[p] = Absent)
  /\ configs = [d \in DomainInputs |-> NoConfig]
  /\ sslFiles = {}
  /\ rendered = <<>>
  /\ req = [r \in Reqs |-> Idle]
  /\ arrivals = 0
  /\ cachedSites = <<>>
  /\ malformed = FALSE
  /\ errored = {}
  /\ listing = NoListing
  /\ logs = <<>>
  /\ logged = <<>>
  /\ exited = {}

\* ------------------------------------------------------------ POST /stop
\* A variant of Stop that looks the site up as Run does and stops nothing
\* for a domain that is not stored.
PostStop_IfStored(r, domain, killOk) ==
  /\ Arrive(r)
  /\ UNCHANGED <<rootDir, parentDir, sslFiles>>
  /\ LET rq == [Idle EXCEPT !.op = "stop", !.domain = domain] IN
     IF ~isValidDomain(domain)
     THEN /\ SameWorld
          /\ req' = [req EXCEPT ![r] = [rq EXCEPT !.pc = "done",
                                                  !.result = "InvalidDomain"]]
     ELSE IF ~HasSite(loadSites, domain)
     THEN /\ LoadOnly
          /\ req' = [req EXCEPT ![r] = [Loaded(rq) EXCEPT
                                          !.pc = "done",
                                          !.result = "redirect"]]
     ELSE LET w == stopSiteCommand([Load(World(r)) EXCEPT !.eff = <<>>],
                                   domain, killOk)
          IN /\ Apply(w)
             /\ req' = [req EXCEPT ![r] = [Loaded(rq) EXCEPT
                                             !.pc = "done",
                                             !.result = "redirect",
                                             !.eff = w.eff]]

PostStop(r, domain, killOk) ==
  /\ Arrive(r)
  /\ UNCHANGED <<rootDir, parentDir, sslFiles>>
  /\ LET rq == [Idle EXCEPT !.op = "stop", !.domain = domain] IN
     IF ~isValidDomain(domain)
     THEN /\ SameWorld
          /\ req' = [req EXCEPT ![r] = [rq EXCEPT !.pc = "done", !.result = "InvalidDomain"]]
     ELSE LET w == stopSiteCommand([World(r) EXCEPT !.eff = <<>>], domain, killOk)
          IN /\ Apply(w)
             /\ req' = [req EXCEPT ![r] = [rq EXCEPT !.pc = "done", !.result = "redirect",
                                                     !.eff = w.eff]]

\* ------------------------------------------------------------- POST /run
\* A variant of Run that also records the command it was given as the
\* site's start command.
PostRun_Remember(r, domain, cmd, killOk) ==
  /\ Arrive(r)
  /\ UNCHANGED <<rootDir, parentDir, sslFiles>>
  /\ LET rq == [Idle EXCEPT !.op = "run", !.domain = domain, !.cmd = cmd] IN
     IF cmd = NoCmd
     THEN /\ SameWorld
          /\ req' = [req EXCEPT ![r] = [rq EXCEPT !.pc = "done", !.result = "redirect"]]
     ELSE IF ~isValidDomain(domain)
     THEN /\ SameWorld
          /\ req' = [req EXCEPT ![r] = [rq EXCEPT !.pc = "done", !.result = "InvalidDomain"]]
     ELSE IF ~HasSite(loadSites, domain)
     THEN /\ LoadOnly
          /\ req' = [req EXCEPT ![r] = [Loaded(rq) EXCEPT !.pc = "done", !.result = "redirect"]]
     ELSE LET site == FindSite(loadSites, domain)
              w1 == runSiteCommand([Load(World(r)) EXCEPT !.eff = <<>>], domain, cmd,
                                   site.root, PortText(site.port), killOk)
              w == saveSites(w1, [i \in 1..Len(loadSites) |->
                                    IF loadSites[i].domain = domain
                                    THEN [loadSites[i] EXCEPT !.cmd = cmd]
                                    ELSE loadSites[i]])
          IN /\ Apply(w)
             /\ req' = [req EXCEPT ![r] = [Loaded(rq) EXCEPT !.pc = "done", !.result = "redirect",
                                                     !.eff = w.eff,
                                                     !.spawned = w.spawned]]

PostRun(r, domain, cmd, killOk) ==
  /\ Arrive(r)
  /\ UNCHANGED <<rootDir, parentDir, sslFiles>>
  /\ LET rq == [Idle EXCEPT !.op = "run", !.domain = domain, !.cmd = cmd] IN
     IF cmd = NoCmd
     THEN /\ SameWorld
          /\ req' = [req EXCEPT ![r] = [rq EXCEPT !.pc = "done", !.result = "redirect"]]
     ELSE IF ~isValidDomain(domain)
     THEN /\ SameWorld
          /\ req' = [req EXCEPT ![r] = [rq EXCEPT !.pc = "done", !.result = "InvalidDomain"]]
     ELSE IF ~HasSite(loadSites, domain)
     THEN /\ LoadOnly
          /\ req' = [req EXCEPT ![r] = [Loaded(rq) EXCEPT !.pc = "done", !.result = "redirect"]]
     ELSE LET site == FindSite(loadSites, domain)
              w == runSiteCommand([Load(World(r)) EXCEPT !.eff = <<>>], domain, cmd,
                                  site.root, PortText(site.port), killOk)
          IN /\ Apply(w)
             /\ req' = [req EXCEPT ![r] = [Loaded(rq) EXCEPT !.pc = "done", !.result = "redirect",
                                                     !.eff = w.eff,
                                                     !.spawned = w.spawned]]

\* ---------------------------------------------------------- POST /delete
\* A variant of Delete that tears the site down: it also stops the tracked
\* process and removes the rendered config.
PostDelete_Teardown(r, domain) ==
  /\ Arrive(r)
  /\ UNCHANGED <<rootDir, parentDir, sslFiles>>
  /\ LET rq == [Idle EXCEPT !.op = "delete", !.domain = domain] IN
     IF ~isValidDomain(domain)
     THEN /\ SameWorld
          /\ req' = [req EXCEPT ![r] = [rq EXCEPT !.pc = "done", !.result = "InvalidDomain"]]
     ELSE LET w1 == stopSiteCommand([Load(World(r)) EXCEPT !.eff = <<>>], domain, TRUE)
              w2 == saveSites(w1, FilterOut(loadSites, domain))
              w == [w2 EXCEPT !.configs[domain] = NoConfig]
          IN /\ Apply(w)
             /\ req' = [req EXCEPT ![r] = [rq EXCEPT !.pc = "done", !.result = "redirect",
                                                     !.eff = w.eff]]

PostDelete(r, domain) ==
  /\ Arrive(r)
  /\ UNCHANGED <<rootDir, parentDir, sslFiles>>
  /\ LET rq == [Idle EXCEPT !.op = "delete", !.domain = domain] IN
     IF ~isValidDomain(domain)
     THEN /\ SameWorld
          /\ req' = [req EXCEPT ![r] = [rq EXCEPT !.pc = "done", !.result = "InvalidDomain"]]
     ELSE LET w == saveSites([Load(World(r)) EXCEPT !.eff = <<>>], FilterOut(loadSites, domain))
          IN /\ Apply(w)
             /\ req' = [req EXCEPT ![r] = [Loaded(rq) EXCEPT !.pc = "done", !.result = "redirect",
                                                     !.eff = w.eff]]

\* The response has been sent; the slot is free for the next request.
Respond(r) ==
  /\ req[r].pc = "done"
  /\ req' = [req EXCEPT ![r] = Idle]
  /\ SameWorld
  /\ UNCHANGED <<rootDir, parentDir, sslFiles, arrivals>>

\* ------------------------------------------------------------- POST /new
PyCmd(entry) ==
  IF entry = "app.py"
  THEN ". .venv/bin/activate && python3 app.py"
  ELSE ". .venv/bin/activate && python3 main.py"

\* A variant of the start step that looks at package.json before the start
\* command.
NewStart_PkgFirst(w, rq, rs, pythonEntry, killOk) ==
  IF hasPkg(rs)
  THEN startApp(w, rq.domain, rq.root, rq.port)
  ELSE IF rq.cmd # NoCmd
  THEN runSiteCommand(w, rq.domain, rq.cmd, rq.root, rq.port, killOk)
  ELSE IF pythonEntry # NoEntry
  THEN runSiteCommand(w, rq.domain, PyCmd(pythonEntry), rq.root, rq.port,
                      killOk)
  ELSE w

\* if (cmd) runSiteCommand(...) else if (fs.existsSync(pkgPath)) startApp(...)
\* else if (pythonEntry) runSiteCommand(domain, pyCmd, ...)
NewStart(w, rq, rs, pythonEntry, killOk) ==
  IF rq.cmd # NoCmd
  THEN runSiteCommand(w, rq.domain, rq.cmd, rq.root, rq.port, killOk)
  ELSE IF hasPkg(rs)
  THEN startApp(w, rq.domain, rq.root, rq.port)
  ELSE IF pythonEntry # NoEntry
  THEN runSiteCommand(w, rq.domain, PyCmd(pythonEntry), rq.root, rq.port,
                      killOk)
  ELSE w

\* const site = { domain, repo, root }; if (port) site.port = Number(port);
\* if (cmd) site.cmd = cmd
NewSite(rq) ==
  [domain |-> rq.domain, repo |-> rq.repo, root |-> rq.root,
   port |-> Number(rq.port), cmd |-> rq.cmd]

\* A variant of the same stretch that writes the config before it starts the
\* process and saves the record.
NewStartAndPersist_RenderFirst(r, rs, pythonEntry, killOk, eff) ==
  LET rq == req[r]
      w1 == generateNginxConfig([World(r) EXCEPT !.eff = eff], NewSite(rq))
      w2 == NewStart(w1, rq, rs, pythonEntry, killOk)
      w3 == saveSites(w2, Append(rq.sites, NewSite(rq)))
  IN /\ Apply(w3)
     /\ GotoW(r, "c_enable", w3)

\* From the start step to the await of enableSite: start, sites.push(site),
\* saveSites(sites), generateNginxConfig(site).
NewStartAndPersist(r, rs, pythonEntry, killOk, eff) ==
  LET rq == req[r]
      w1 == NewStart([World(r) EXCEPT !.eff = eff], rq, rs, pythonEntry,
                     killOk)
      w2 == saveSites(w1, Append(rq.sites, NewSite(rq)))
      w3 == generateNginxConfig(w2, NewSite(rq))
  IN /\ Apply(w3)
     /\ GotoW(r, "c_enable", w3)

\* After npm install: the requirements.txt check.
NewAfterNpm(r, killOk, eff) ==
  IF hasReq(rootDir'[req[r].root])
  THEN SameWorld /\ Goto(r, "c_pip", eff)
  ELSE NewStartAndPersist(r, rootDir'[req[r].root], NoEntry, killOk, eff)

\* After the parent directory is known to be writable: the check of root.
NewCheckRoot(r) ==
  IF rootDir[req[r].root].kind # "absent"
  THEN Goto(r, "c_readdir", req[r].eff)
  ELSE Goto(r, "c_clone", req[r].eff)

\* A variant of the first stretch of Create without the look-up of the
\* domain in the loaded list.
PostNew_Begin_NoDuplicateCheck(r, domain, repo, root, port, cmd, overwrite) ==
  /\ Arrive(r)
  /\ Reads(isValidDomain(domain))
  /\ UNCHANGED <<rootDir, parentDir, sslFiles>>
  /\ LET rq == [Idle EXCEPT !.op = "new", !.domain = domain, !.repo = repo,
                            !.root = root, !.port = port, !.cmd = cmd, !.overwrite = overwrite,
                            !.sites = loadSites]
     IN IF ~isValidDomain(domain)
        THEN req' = [req EXCEPT ![r] = [rq EXCEPT !.pc = "done", !.sites = <<>>,
                                                  !.result = "InvalidDomain"]]
        ELSE req' = [req EXCEPT ![r] = [rq EXCEPT !.pc = "c_access"]]

PostNew_Begin(r, domain, repo, root, port, cmd, overwrite) ==
  /\ Arrive(r)
  /\ Reads(isValidDomain(domain))
  /\ UNCHANGED <<rootDir, parentDir, sslFiles>>
  /\ LET rq == [Idle EXCEPT !.op = "new", !.domain = domain, !.repo = repo,
                            !.root = root, !.port = port, !.cmd = cmd, !.overwrite = overwrite,
                            !.sites = loadSites]
     IN IF ~isValidDomain(domain)
        THEN req' = [req EXCEPT ![r] = [rq EXCEPT !.pc = "done", !.sites = <<>>,
                                                  !.result = "InvalidDomain"]]
        ELSE IF HasSite(loadSites, domain)
        THEN req' = [req EXCEPT ![r] = [Loaded(rq) EXCEPT !.pc = "done",
                                                  !.result = "DuplicateDomain"]]
        ELSE req' = [req EXCEPT ![r] = [Loaded(rq) EXCEPT !.pc = "c_access"]]

\* await fs.promises.access(parentDir, W_OK)
PostNew_Access(r) ==
  /\ At(r, "c_access")
  /\ SameWorld
  /\ UNCHANGED <<rootDir, parentDir, sslFiles, arrivals>>
  /\ IF parentDir = "writable"
     THEN NewCheckRoot(r)
     ELSE Goto(r, "c_mkdir", req[r].eff)

\* await fs.promises.mkdir(parentDir, { recursive: true })
PostNew_Mkdir(r, ok) ==
  /\ At(r, "c_mkdir")
  /\ SameWorld
  /\ UNCHANGED <<rootDir, sslFiles, arrivals>>
  /\ IF parentDir = "missing"
     THEN IF ok
          THEN /\ parentDir' = "writable"
               /\ Goto(r, "c_access2", Append(req[r].eff, "mkdir"))
          ELSE /\ UNCHANGED parentDir
               /\ Reply(r, "PermissionError", req[r].eff)
     ELSE /\ UNCHANGED parentDir
          /\ Goto(r, "c_access2", req[r].eff)

\* await fs.promises.access(parentDir, W_OK), after mkdir
PostNew_Access2(r) ==
  /\ At(r, "c_access2")
  /\ SameWorld
  /\ UNCHANGED <<rootDir, parentDir, sslFiles, arrivals>>
  /\ IF parentDir = "writable"
     THEN NewCheckRoot(r)
     ELSE Reply(r, "PermissionError", req[r].eff)

\* A variant of the readdir step that removes a non-empty root before it
\* looks at the overwrite flag.
PostNew_Readdir_RmFirst(r, ok) ==
  /\ At(r, "c_readdir")
  /\ SameWorld
  /\ UNCHANGED <<parentDir, sslFiles, arrivals>>
  /\ IF rootDir[req[r].root].kind = "absent" \/ ~ok
     THEN UNCHANGED rootDir /\ Reply(r, "AccessError", req[r].eff)
     ELSE IF rootDir[req[r].root].kind = "empty"
     THEN UNCHANGED rootDir /\ Goto(r, "c_clone", req[r].eff)
     ELSE /\ rootDir' = [rootDir EXCEPT ![req[r].root] = Absent]
          /\ IF req[r].overwrite
             THEN Goto(r, "c_clone", Append(req[r].eff, "rm"))
             ELSE Reply(r, "DestinationNotEmpty", Append(req[r].eff, "rm"))

\* A variant of the readdir step that goes on to remove a non-empty root
\* whether or not overwrite was requested.
PostNew_Readdir_NoOptIn(r, ok) ==
  /\ At(r, "c_readdir")
  /\ SameWorld
  /\ UNCHANGED <<rootDir, parentDir, sslFiles, arrivals>>
  /\ IF rootDir[req[r].root].kind = "absent" \/ ~ok
     THEN Reply(r, "AccessError", req[r].eff)
     ELSE IF rootDir[req[r].root].kind = "empty"
     THEN Goto(r, "c_clone", req[r].eff)
     ELSE Goto(r, "c_rm", req[r].eff)

\* await fs.promises.readdir(root)
PostNew_Readdir(r, ok) ==
  /\ At(r, "c_readdir")
  /\ SameWorld
  /\ UNCHANGED <<rootDir, parentDir, sslFiles, arrivals>>
  /\ IF rootDir[req[r].root].kind = "absent" \/ ~ok
     THEN Reply(r, "AccessError", req[r].eff)
     ELSE IF rootDir[req[r].root].kind = "empty"
     THEN Goto(r, "c_clone", req[r].eff)
     ELSE IF req[r].overwrite
     THEN Goto(r, "c_rm", req[r].eff)
     ELSE Reply(r, "DestinationNotEmpty", req[r].eff)

\* await fs.promises.rm(root, { recursive: true, force: true })
PostNew_Rm(r, ok) ==
  /\ At(r, "c_rm")
  /\ SameWorld
  /\ UNCHANGED <<parentDir, sslFiles, arrivals>>
  /\ IF ok
     THEN /\ rootDir' = [rootDir EXCEPT ![req[r].root] = Absent]
          /\ Goto(r, "c_clone", Append(req[r].eff, "rm"))
     ELSE /\ UNCHANGED rootDir
          /\ Reply(r, "AccessError", req[r].eff)

\* A variant of the clone step in which the record was pushed and saved
\* before the clone: a failed clone leaves the record in the store.
PostNew_Clone_SaveFirst(r, ok, killOk) ==
  /\ At(r, "c_clone")
  /\ UNCHANGED <<parentDir, sslFiles, arrivals>>
  /\ LET root == req[r].root
         tree == RepoTree(req[r].repo)
         saved == saveSites(World(r), Append(req[r].sites, NewSite(req[r])))
     IN
     IF rootDir[root].kind \in {"stale", "tree"} \/ ~ok
     THEN /\ UNCHANGED rootDir
          /\ Apply(saved)
          /\ Reply(r, "FetchError", Append(saved.eff, "clone_failed"))
     ELSE /\ rootDir' = [rootDir EXCEPT ![root] = Cloned(tree)]
          /\ IF tree.pkg
             THEN SameWorld /\ Goto(r, "c_npm", Append(req[r].eff, "clone"))
             ELSE NewAfterNpm(r, killOk, Append(req[r].eff, "clone"))

\* await simpleGit().clone(repo, root), then the synchronous code up to the
\* next await.
PostNew_Clone(r, ok, killOk) ==
  /\ At(r, "c_clone")
  /\ UNCHANGED <<parentDir, sslFiles, arrivals>>
  /\ LET root == req[r].root
         tree == RepoTree(req[r].repo)
     IN
     IF rootDir[root].kind \in {"stale", "tree"}
     THEN /\ UNCHANGED rootDir
          /\ SameWorld
          /\ Reply(r, "FetchErrorNotEmpty", Append(req[r].eff, "clone_failed"))
     ELSE IF ~ok
     THEN /\ UNCHANGED rootDir
          /\ SameWorld
          /\ Reply(r, "FetchError", Append(req[r].eff, "clone_failed"))
     ELSE /\ rootDir' = [rootDir EXCEPT ![root] = Cloned(tree)]
          /\ IF tree.pkg
             THEN SameWorld /\ Goto(r, "c_npm", Append(req[r].eff, "clone"))
             ELSE NewAfterNpm(r, killOk, Append(req[r].eff, "clone"))

\* await runCommand('npm install', root); a failure is caught and logged.
PostNew_Npm(r, ok, killOk) ==
  /\ At(r, "c_npm")
  /\ UNCHANGED <<rootDir, parentDir, sslFiles, arrivals>>
  /\ NewAfterNpm(r, killOk,
                 Append(req[r].eff, IF ok THEN "npm" ELSE "npm_failed"))

\* await runCommand('python3 -m venv ... pip install -r requirements.txt');
\* a failure is caught and logged; then the entry point is looked up.
PostNew_Pip(r, ok, killOk) ==
  /\ At(r, "c_pip")
  /\ UNCHANGED <<rootDir, parentDir, sslFiles, arrivals>>
  /\ NewStartAndPersist(r, rootDir[req[r].root], pythonEntryOf(rootDir[req[r].root]),
                        killOk,
                        Append(req[r].eff, IF ok THEN "pip" ELSE "pip_failed"))

\* The promise of enableSite: resolved, or rejected with an Error whose
\* message is the script's stderr (err.message when stderr is empty).
EnableDiag == "stderr of enable_site.sh"
enableSite(domain, ok) ==
  IF ok THEN [resolved |-> TRUE, message |-> ""]
  ELSE [resolved |-> FALSE, message |-> EnableDiag]

\* `Run \`sudo ./scripts/enable_site.sh ${site.domain}\` manually`
EnableHint(domain) == <<"sudo ./scripts/enable_site.sh", domain>>

\* A variant of the enable step that rolls the site back when the script
\* fails: the process is stopped and the record removed.
PostNew_Enable_Rollback(r, ok) ==
  /\ At(r, "c_enable")
  /\ UNCHANGED <<rootDir, parentDir, sslFiles, arrivals>>
  /\ IF ok
     THEN SameWorld /\ Reply(r, "redirect", Append(req[r].eff, "enable"))
     ELSE LET w1 == stopSiteCommand(Effect(World(r), "enable_failed"),
                                    req[r].domain, TRUE)
              w2 == saveSites(w1, FilterOut(w1.sites, req[r].domain))
          IN Apply(w2) /\ ReplyW(r, "ReloadFailure", w2)

\* await enableSite(site.domain); a failure is answered with status 500 and
\* the hint.
PostNew_Enable(r, ok) ==
  /\ At(r, "c_enable")
  /\ SameWorld
  /\ UNCHANGED <<rootDir, parentDir, sslFiles, arrivals>>
  /\ IF enableSite(req[r].domain, ok).resolved
     THEN Reply(r, "redirect", Append(req[r].eff, "enable"))
     ELSE req' = [req EXCEPT ![r].pc = "done", ![r].result = "ReloadFailure",
                             ![r].eff = Append(@, "enable_failed"),
                             ![r].hint = EnableHint(req[r].domain),
                             ![r].error = enableSite(req[r].domain, ok).message]

\* ---------------------------------------------------------- POST /update
\* if (site.cmd) runSiteCommand(...) else if (fs.existsSync(pkgJson))
\* startApp(...) else if (fs.existsSync(reqTxt)) { entry = candidates.find(..);
\* if (entry) runSiteCommand(domain, pyCmd, ...) }
UpdateStart(w, site, rs, killOk) ==
  IF site.cmd # NoCmd
  THEN runSiteCommand(w, site.domain, site.cmd, site.root, PortText(site.port), killOk)
  ELSE IF hasPkg(rs)
  THEN startApp(w, site.domain, site.root, PortText(site.port))
  ELSE IF hasReq(rs) /\ pythonEntryOf(rs) # NoEntry
  THEN runSiteCommand(w, site.domain, PyCmd(pythonEntryOf(rs)), site.root,
                      PortText(site.port), killOk)
  ELSE w

\* The site object the handler found when it began.
UpdateSite(r) == FindSite(req[r].sites, req[r].domain)

\* The restart and the redirect that ends a successful update.
UpdateRestart(r, killOk, eff) ==
  LET w == UpdateStart([World(r) EXCEPT !.eff = eff], UpdateSite(r),
                       rootDir'[UpdateSite(r).root], killOk)
  IN /\ Apply(w)
     /\ ReplyW(r, "redirect", w)

\* After npm install: the requirements.txt check.
UpdateAfterNpm(r, killOk, eff) ==
  IF hasReq(rootDir'[UpdateSite(r).root])
  THEN SameWorld /\ Goto(r, "u_pip", eff)
  ELSE UpdateRestart(r, killOk, eff)

\* A variant of the first stretch of Update without the 404 guard: site.root
\* of a missing site throws inside the try block, and the catch answers.
PostUpdate_Begin_NoExistenceCheck(r, domain) ==
  /\ Arrive(r)
  /\ Reads(isValidDomain(domain))
  /\ UNCHANGED <<rootDir, parentDir, sslFiles>>
  /\ LET rq == [Idle EXCEPT !.op = "update", !.domain = domain] IN
     IF ~isValidDomain(domain)
     THEN req' = [req EXCEPT ![r] = [rq EXCEPT !.pc = "done", !.result = "InvalidDomain"]]
     ELSE IF ~HasSite(loadSites, domain)
     THEN req' = [req EXCEPT ![r] = [rq EXCEPT !.pc = "done", !.result = "SyncError",
                                               !.sites = loadSites]]
     ELSE req' = [req EXCEPT ![r] = [rq EXCEPT !.pc = "u_pull", !.sites = loadSites]]

PostUpdate_Begin(r, domain) ==
  /\ Arrive(r)
  /\ Reads(isValidDomain(domain))
  /\ UNCHANGED <<rootDir, parentDir, sslFiles>>
  /\ LET rq == [Idle EXCEPT !.op = "update", !.domain = domain] IN
     IF ~isValidDomain(domain)
     THEN req' = [req EXCEPT ![r] = [rq EXCEPT !.pc = "done", !.result = "InvalidDomain"]]
     ELSE IF ~HasSite(loadSites, domain)
     THEN req' = [req EXCEPT ![r] = [Loaded(rq) EXCEPT !.pc = "done", !.result = "NotFound",
                                               !.sites = loadSites]]
     ELSE req' = [req EXCEPT ![r] = [Loaded(rq) EXCEPT !.pc = "u_pull", !.sites = loadSites]]

\* A variant of the pull step that stops the site's process before it looks
\* at the outcome of the pull.
PostUpdate_Pull_StopFirst(r, ok, tree, killOk) ==
  /\ At(r, "u_pull")
  /\ UNCHANGED <<parentDir, sslFiles, arrivals>>
  /\ LET root == UpdateSite(r).root
         w == stopSiteCommand(World(r), req[r].domain, killOk)
     IN
     IF rootDir[root].kind # "tree" \/ ~ok
     THEN /\ UNCHANGED rootDir
          /\ Apply(w)
          /\ ReplyW(r, "SyncError", Effect(w, "pull_failed"))
     ELSE /\ rootDir' = [rootDir EXCEPT ![root] = Cloned(tree)]
          /\ IF tree.pkg
             THEN SameWorld /\ Goto(r, "u_npm", Append(req[r].eff, "pull"))
             ELSE UpdateAfterNpm(r, killOk, Append(req[r].eff, "pull"))

\* await git.pull('origin', 'main'), then the synchronous code up to the
\* next await; any exception ends in the handler's catch.
PostUpdate_Pull(r, ok, tree, killOk) ==
  /\ At(r, "u_pull")
  /\ UNCHANGED <<parentDir, sslFiles, arrivals>>
  /\ LET root == UpdateSite(r).root IN
     IF rootDir[root].kind # "tree" \/ ~ok
     THEN /\ UNCHANGED rootDir
          /\ SameWorld
          /\ Reply(r, "SyncError", Append(req[r].eff, "pull_failed"))
     ELSE /\ rootDir' = [rootDir EXCEPT ![root] = Cloned(tree)]
          /\ IF tree.pkg
             THEN SameWorld /\ Goto(r, "u_npm", Append(req[r].eff, "pull"))
             ELSE UpdateAfterNpm(r, killOk, Append(req[r].eff, "pull"))

\* await runCommand('npm install', site.root); a failure is thrown into the
\* handler's catch, which answers 'Failed to pull updates'.
PostUpdate_Npm(r, ok, killOk) ==
  /\ At(r, "u_npm")
  /\ UNCHANGED <<rootDir, parentDir, sslFiles, arrivals>>
  /\ IF ok
     THEN UpdateAfterNpm(r, killOk, Append(req[r].eff, "npm"))
     ELSE SameWorld /\ Reply(r, "SyncError", Append(req[r].eff, "npm_failed"))

\* await runCommand('. .venv/bin/activate && python3 -m pip install ...')
PostUpdate_Pip(r, ok, killOk) ==
  /\ At(r, "u_pip")
  /\ UNCHANGED <<rootDir, parentDir, sslFiles, arrivals>>
  /\ IF ok
     THEN UpdateRestart(r, killOk, Append(req[r].eff, "pip"))
     ELSE SameWorld /\ Reply(r, "SyncError", Append(req[r].eff, "pip_failed"))

\* ----------------------------------------------------------- POST /nginx
\* The request bodies submitted to the simple-mode editor.
NginxForms ==
  { [domain |-> "a.test", root |-> "/srv/r1", port |-> <<3, 0, 0, 1>>],
    [domain |-> "a.test", root |-> "/srv/r1", port |-> <<3, 0, 0, 2>>],
    [domain |-> "a.test", root |-> "/srv/r2", port |-> NoPortText],
    [domain |-> "b.test", root |-> "/srv/r2", port |-> <<3, 0, 0, 2>>],
    [domain |-> "b.test", root |-> "/srv/r1", port |-> NoPortText],
    [domain |-> "a;b", root |-> "/srv/r1", port |-> NoPortText] }

\* The position of sites.find(s => s.domain === domain).
IndexOf(sites, d) ==
  CHOOSE i \in 1..Len(sites) :
    /\ sites[i].domain = d
    /\ \A j \in 1..(i - 1) : sites[j].domain # d

\* site.root = root; site.port = port ? Number(port) : undefined
EditSite(sites, d, root, port) ==
  [sites EXCEPT ![IndexOf(sites, d)].root = root,
                ![IndexOf(sites, d)].port = Number(port)]

\* A variant of the simple-mode edit that renders the record as it was
\* before the edit.
PostNginx_Begin_RenderBefore(r, domain, root, port) ==
  /\ Arrive(r)
  /\ UNCHANGED <<rootDir, parentDir, sslFiles>>
  /\ LET rq == [Idle EXCEPT !.op = "nginx", !.domain = domain, !.root = root,
                            !.port = port]
     IN IF ~isValidDomain(domain)
        THEN /\ SameWorld
             /\ req' = [req EXCEPT ![r] = [rq EXCEPT !.pc = "done",
                                                     !.result = "InvalidDomain"]]
        ELSE IF ~HasSite(loadSites, domain)
        THEN /\ LoadOnly
             /\ req' = [req EXCEPT ![r] = [Loaded(rq) EXCEPT !.pc = "done",
                                                     !.result = "redirect"]]
        ELSE LET sites == EditSite(loadSites, domain, root, port)
                 w1 == saveSites([Load(World(r)) EXCEPT !.eff = <<>>], sites)
                 w2 == generateNginxConfig(w1, FindSite(loadSites, domain))
             IN /\ Apply(w2)
                /\ req' = [req EXCEPT ![r] = [Loaded(rq) EXCEPT !.pc = "n_enable",
                                                        !.sites = sites,
                                                        !.eff = w2.eff]]

\* Up to the await of enableSite: validation, loadSites, the edit of the
\* record, saveSites(sites), generateNginxConfig(site).
PostNginx_Begin(r, domain, root, port) ==
  /\ Arrive(r)
  /\ UNCHANGED <<rootDir, parentDir, sslFiles>>
  /\ LET rq == [Idle EXCEPT !.op = "nginx", !.domain = domain, !.root = root,
                            !.port = port]
     IN IF ~isValidDomain(domain)
        THEN /\ SameWorld
             /\ req' = [req EXCEPT ![r] = [rq EXCEPT !.pc = "done",
                                                     !.result = "InvalidDomain"]]
        ELSE IF ~HasSite(loadSites, domain)
        THEN /\ LoadOnly
             /\ req' = [req EXCEPT ![r] = [Loaded(rq) EXCEPT !.pc = "done",
                                                     !.result = "redirect"]]
        ELSE LET sites == EditSite(loadSites, domain, root, port)
                 w1 == saveSites([Load(World(r)) EXCEPT !.eff = <<>>], sites)
                 w2 == generateNginxConfig(w1, FindSite(sites, domain))
             IN /\ Apply(w2)
                /\ req' = [req EXCEPT ![r] = [Loaded(rq) EXCEPT !.pc = "n_enable",
                                                        !.sites = sites,
                                                        !.eff = w2.eff]]

\* A variant of the enable step of the editor that only logs a failure of
\* the script and answers saved=1 all the same.
PostNginx_Enable_Swallow(r, ok) ==
  /\ At(r, "n_enable")
  /\ SameWorld
  /\ UNCHANGED <<rootDir, parentDir, sslFiles, arrivals>>
  /\ Reply(r, "saved",
           Append(req[r].eff, IF ok THEN "enable" ELSE "enable_failed"))

\* await enableSite(site.domain); a failure is answered with a redirect to
\* /nginx?site=..&saved=0&error=Failed to enable site: <message>. <hint>
PostNginx_Enable(r, ok) ==
  /\ At(r, "n_enable")
  /\ SameWorld
  /\ UNCHANGED <<rootDir, parentDir, sslFiles, arrivals>>
  /\ IF enableSite(req[r].domain, ok).resolved
     THEN Reply(r, "saved", Append(req[r].eff, "enable"))
     ELSE req' = [req EXCEPT ![r].pc = "done", ![r].result = "ReloadFailure",
                             ![r].eff = Append(@, "enable_failed"),
                             ![r].hint = EnableHint(req[r].domain),
                             ![r].error = enableSite(req[r].domain, ok).message]

\* ------------------------------------------------------ POST /ssl/:domain
\* What the request carries: nothing usable, certificate and key (as text
\* or as two files), or a zip bundle.
SslForms ==
  { [domain |-> "a.test", material |-> "text"],
    [domain |-> "a.test", material |-> "bundle"],
    [domain |-> "b.test", material |-> "text"],
    [domain |-> "b.test", material |-> "none"],
    [domain |-> "a;b", material |-> "text"],
    [domain |-> "a;b", material |-> "bundle"] }

\* From the writes of <domain>.crt and <domain>.key to the next await:
\* loadSites, and for a stored site generateNginxConfig(site). rq is the
\* handler's record.
SslInstall(r, rq) ==
  LET d == rq.domain
      files == sslFiles \cup {certPath(d), keyPath(d)}
      w0 == Effect([Load(World(r)) EXCEPT !.ssl = files, !.eff = rq.eff], "sslwrite")
  IN /\ sslFiles' = files
     /\ IF HasSite(loadSites, d)
        THEN LET w == generateNginxConfig(w0, FindSite(loadSites, d))
             IN /\ Apply(w)
                /\ req' = [req EXCEPT ![r] = [Loaded(rq) EXCEPT !.pc = "s_enable",
                                                        !.eff = w.eff]]
        ELSE /\ LoadOnly
             /\ req' = [req EXCEPT ![r] = [Loaded(rq) EXCEPT !.pc = "s_test",
                                                     !.eff = w0.eff]]

\* The upload middleware has stored an uploaded bundle under uploads/ when
\* the handler begins. Validation, then the material: a bundle is extracted
\* first (an await); without certificate and key the handler answers 400.
PostSsl_Begin(r, domain, material) ==
  /\ Arrive(r)
  /\ UNCHANGED <<rootDir, parentDir>>
  /\ LET rq == [Idle EXCEPT !.op = "ssl", !.domain = domain,
                            !.eff = IF material = "bundle"
                                    THEN <<"upload">> ELSE <<>>]
     IN IF ~isValidDomain(domain)
        THEN /\ SameWorld /\ UNCHANGED sslFiles
             /\ req' = [req EXCEPT ![r] = [rq EXCEPT !.pc = "done",
                                                     !.result = "InvalidDomain"]]
        ELSE IF material = "bundle"
        THEN /\ SameWorld /\ UNCHANGED sslFiles
             /\ req' = [req EXCEPT ![r] = [rq EXCEPT !.pc = "s_extract"]]
        ELSE IF material = "none"
        THEN /\ SameWorld /\ UNCHANGED sslFiles
             /\ req' = [req EXCEPT ![r] = [rq EXCEPT !.pc = "done",
                                                     !.result = "MaterialRequired"]]
        ELSE SslInstall(r, rq)

\* await extract(bundle, { dir: tmpDir }); a failure is caught and logged,
\* and leaves certificate and key undefined.
PostSsl_Extract(r, ok) ==
  /\ At(r, "s_extract")
  /\ UNCHANGED <<rootDir, parentDir, arrivals>>
  /\ IF ok
     THEN SslInstall(r, req[r])
     ELSE /\ SameWorld /\ UNCHANGED sslFiles
          /\ Reply(r, "MaterialRequired", req[r].eff)

\* await enableSite(site.domain); a failure is answered with status 500
\* 'Failed to enable site: <message>'.
PostSsl_Enable(r, ok) ==
  /\ At(r, "s_enable")
  /\ SameWorld
  /\ UNCHANGED <<rootDir, parentDir, sslFiles, arrivals>>
  /\ IF enableSite(req[r].domain, ok).resolved
     THEN Goto(r, "s_test", Append(req[r].eff, "enable"))
     ELSE req' = [req EXCEPT ![r].pc = "done", ![r].result = "ReloadFailure",
                             ![r].eff = Append(@, "enable_failed"),
                             ![r].error = enableSite(req[r].domain, ok).message]

\* await testSsl(domain): the outcome is logged, the answer is the redirect.
PostSsl_Test(r, ok) ==
  /\ At(r, "s_test")
  /\ SameWorld
  /\ UNCHANGED <<rootDir, parentDir, sslFiles, arrivals>>
  /\ Reply(r, "redirect",
           Append(req[r].eff, IF ok THEN "ssltest" ELSE "ssltest_failed"))

\* ------------------------------------------- the other domain entry points
\* A query or body without a domain.
NoDomain == ""
OptDomainInputs == DomainInputs \cup {NoDomain}

\* The handler leaves every file, the store and the process table alone.
NoWrites == SameWorld /\ UNCHANGED <<rootDir, parentDir, sslFiles>>
ReadsOnly(loads) == Reads(loads) /\ UNCHANGED <<rootDir, parentDir, sslFiles>>

\* The handler of slot r, whose record is rq, answers; or goes on to pc.
Answer(r, rq, result) ==
  req' = [req EXCEPT ![r] = [rq EXCEPT !.pc = "done", !.result = result]]
Proceed(r, rq, pc) == req' = [req EXCEPT ![r] = [rq EXCEPT !.pc = pc]]

\* GET /nginx?site=<domain>: loadSites() comes before the validation.
GetNginx(r, domain) ==
  /\ Arrive(r)
  /\ ReadsOnly(TRUE)
  /\ LET rq == Loaded([Idle EXCEPT !.op = "get_nginx", !.domain = domain])
     IN IF domain # NoDomain /\ ~isValidDomain(domain)
        THEN Answer(r, rq, "InvalidDomain")
        ELSE Answer(r, rq, "page")

\* GET /nginx/expert?site=<domain>: loadSites(), the validation, then the
\* read of the config file (a failure is logged).
GetNginxExpert(r, domain) ==
  /\ Arrive(r)
  /\ ReadsOnly(TRUE)
  /\ LET rq == Loaded([Idle EXCEPT !.op = "get_expert", !.domain = domain])
     IN IF domain # NoDomain /\ ~isValidDomain(domain)
        THEN Answer(r, rq, "InvalidDomain")
        ELSE Answer(r, [rq EXCEPT !.reads = Append(@, "config")], "page")

\* The text an operator saves in expert mode.
ExpertConfig == << <<"# edited by hand">> >>

\* POST /nginx/expert: the validation, fs.writeFileSync(filePath, config)
\* (the site's generated config, or nginx.conf without a domain), then
\* exec('nginx -s reload').
PostNginxExpert_Begin(r, domain, ok) ==
  /\ Arrive(r)
  /\ UNCHANGED <<sitesFile, runningProcs, children, killCalled, signalled,
                 rendered, rootDir, parentDir, sslFiles, cachedSites,
                 malformed, errored, listing, logs, logged, exited>>
  /\ LET rq == [Idle EXCEPT !.op = "post_expert", !.domain = domain]
     IN IF domain # NoDomain /\ ~isValidDomain(domain)
        THEN UNCHANGED configs /\ Answer(r, rq, "InvalidDomain")
        ELSE IF ~ok
        THEN UNCHANGED configs /\ Answer(r, rq, "NotSaved")
        ELSE /\ configs' = IF domain # NoDomain
                           THEN [configs EXCEPT ![domain] = ExpertConfig]
                           ELSE configs
             /\ Proceed(r, [rq EXCEPT !.eff = <<"writeconfig">>], "x_reload")

\* The callback of exec('nginx -s reload'): saved=0 with the error, or
\* saved=1.
PostNginxExpert_Reload(r, ok) ==
  /\ At(r, "x_reload")
  /\ NoWrites
  /\ UNCHANGED arrivals
  /\ IF ok
     THEN Reply(r, "saved", Append(req[r].eff, "reload"))
     ELSE Reply(r, "NotSaved", Append(req[r].eff, "reload_failed"))

\* A variant of POST /fix without the validation of the domain.
PostFix_Begin_Unvalidated(r, domain) ==
  /\ Arrive(r)
  /\ NoWrites
  /\ LET rq == [Idle EXCEPT !.op = "fix", !.domain = domain]
     IN IF domain = NoDomain
        THEN Answer(r, rq, "redirect")
        ELSE Proceed(r, [rq EXCEPT !.eff = <<"exec_fix">>], "f_exec")

\* POST /fix: exec(`bash scripts/fix_site.sh ${domain}`)
PostFix_Begin(r, domain) ==
  /\ Arrive(r)
  /\ NoWrites
  /\ LET rq == [Idle EXCEPT !.op = "fix", !.domain = domain]
     IN IF domain = NoDomain
        THEN Answer(r, rq, "redirect")
        ELSE IF ~isValidDomain(domain)
        THEN Answer(r, rq, "InvalidDomain")
        ELSE Proceed(r, [rq EXCEPT !.eff = <<"exec_fix">>], "f_exec")

\* The callback of the fix script: the outcome is logged, the answer is the
\* redirect.
PostFix_Exec(r, ok) ==
  /\ At(r, "f_exec")
  /\ NoWrites
  /\ UNCHANGED arrivals
  /\ Reply(r, "redirect",
           Append(req[r].eff, IF ok THEN "fixed" ELSE "fix_failed"))

\* POST /backup: the validation, loadSites, then the archive of the site's
\* root and config is written under backups/.
PostBackup_Begin(r, domain) ==
  /\ Arrive(r)
  /\ ReadsOnly(isValidDomain(domain))
  /\ LET rq == [Idle EXCEPT !.op = "backup", !.domain = domain]
     IN IF ~isValidDomain(domain)
        THEN Answer(r, rq, "InvalidDomain")
        ELSE IF ~HasSite(loadSites, domain)
        THEN Answer(r, Loaded(rq), "NotFound")
        ELSE Proceed(r, [Loaded(rq) EXCEPT !.eff = <<"archive">>,
                                           !.reads = @ \o <<"root", "config">>],
                     "b_archive")

\* output 'close' -> res.download(...); archive 'error' -> 500
PostBackup_Archive(r, ok) ==
  /\ At(r, "b_archive")
  /\ NoWrites
  /\ UNCHANGED arrivals
  /\ IF ok
     THEN Reply(r, "download", req[r].eff)
     ELSE Reply(r, "ArchiveError", req[r].eff)

\* GET /config/:domain
GetConfig(r, domain) ==
  /\ Arrive(r)
  /\ NoWrites
  /\ LET rq == [Idle EXCEPT !.op = "get_config", !.domain = domain]
     IN IF ~isValidDomain(domain)
        THEN Answer(r, rq, "InvalidDomain")
        ELSE IF configs[domain] = NoConfig
        THEN Answer(r, [rq EXCEPT !.reads = <<"config">>], "NotFound")
        ELSE Answer(r, [rq EXCEPT !.reads = <<"config", "config">>], "page")

\* GET /ssl/:domain
GetSsl(r, domain) ==
  /\ Arrive(r)
  /\ NoWrites
  /\ LET rq == [Idle EXCEPT !.op = "get_ssl", !.domain = domain]
     IN IF ~isValidDomain(domain)
        THEN Answer(r, rq, "InvalidDomain")
        ELSE Answer(r, rq, "page")

\* GET /ssl/:domain/test: exec(`openssl s_client -servername ${domain} ...`)
GetSslTest_Begin(r, domain) ==
  /\ Arrive(r)
  /\ NoWrites
  /\ LET rq == [Idle EXCEPT !.op = "ssl_test", !.domain = domain]
     IN IF ~isValidDomain(domain)
        THEN Answer(r, rq, "InvalidDomain")
        ELSE Proceed(r, [rq EXCEPT !.eff = <<"exec_openssl">>], "t_test")

\* await testSsl(domain): res.json(result), or status 500 on rejection.
GetSslTest_Test(r, ok) ==
  /\ At(r, "t_test")
  /\ NoWrites
  /\ UNCHANGED arrivals
  /\ IF ok
     THEN Reply(r, "page", Append(req[r].eff, "ssltest"))
     ELSE Reply(r, "TestError", Append(req[r].eff, "ssltest_failed"))

\* POST /dns: the validation, the credentials, then await getServerIp().
PostDns_Begin(r, domain, creds) ==
  /\ Arrive(r)
  /\ NoWrites
  /\ LET rq == [Idle EXCEPT !.op = "dns", !.domain = domain]
     IN IF domain = NoDomain \/ ~isValidDomain(domain)
        THEN Answer(r, rq, "InvalidDomain")
        ELSE IF ~creds
        THEN Answer(r, rq, "DnsFailed")
        ELSE Proceed(r, rq, "d_ip")

\* await getServerIp(): null -> dns=0
PostDns_Ip(r, ok) ==
  /\ At(r, "d_ip")
  /\ NoWrites
  /\ UNCHANGED arrivals
  /\ IF ok
     THEN Goto(r, "d_update", Append(req[r].eff, "dns_request"))
     ELSE Reply(r, "DnsFailed", req[r].eff)

\* await updateARecord(domain, ip, key, secret)
PostDns_Update(r, ok) ==
  /\ At(r, "d_update")
  /\ NoWrites
  /\ UNCHANGED arrivals
  /\ IF ok
     THEN Reply(r, "DnsOk", Append(req[r].eff, "dns_updated"))
     ELSE Reply(r, "DnsFailed", Append(req[r].eff, "dns_failed"))

\* GET /test/:domain: the validation, then await getServerIp().
GetTest_Begin(r, domain) ==
  /\ Arrive(r)
  /\ NoWrites
  /\ LET rq == [Idle EXCEPT !.op = "test_ip", !.domain = domain]
     IN IF ~isValidDomain(domain)
        THEN Answer(r, rq, "InvalidDomain")
        ELSE Proceed(r, rq, "v_ip")

\* await getServerIp(): null -> { ok: false, error }; else the request
\* with the Host header is sent.
GetTest_Ip(r, ok) ==
  /\ At(r, "v_ip")
  /\ NoWrites
  /\ UNCHANGED arrivals
  /\ IF ok
     THEN Goto(r, "v_request", Append(req[r].eff, "http_request"))
     ELSE Reply(r, "page", req[r].eff)

\* The response, error or timeout of the test request.
GetTest_Request(r, ok) ==
  /\ At(r, "v_request")
  /\ NoWrites
  /\ UNCHANGED arrivals
  /\ Reply(r, "page",
           Append(req[r].eff, IF ok THEN "http_ok" ELSE "http_failed"))

\* ------------------------------------------------------------------ Next
\* Each step with its inputs and the outcomes of the external tools: the
\* request body, whether the tool succeeded (ok), whether process.kill
\* succeeded (k), the tree a pull brings (t).
PostNew_Begin_Step(r) ==
  /\ CanArrive(r)
  /\ \E f \in NewForms :
       PostNew_Begin(r, f.domain, f.repo, f.root, f.port, f.cmd, f.overwrite)

PostNew_Mkdir_Step(r) ==
  At(r, "c_mkdir") /\ \E ok \in BOOLEAN : PostNew_Mkdir(r, ok)

PostNew_Readdir_Step(r) ==
  At(r, "c_readdir") /\ \E ok \in BOOLEAN : PostNew_Readdir(r, ok)

PostNew_Rm_Step(r) ==
  At(r, "c_rm") /\ \E ok \in BOOLEAN : PostNew_Rm(r, ok)

PostNew_Clone_Step(r) ==
  At(r, "c_clone") /\ \E ok \in BOOLEAN, k \in BOOLEAN : PostNew_Clone(r, ok, k)

PostNew_Npm_Step(r) ==
  At(r, "c_npm") /\ \E ok \in BOOLEAN, k \in BOOLEAN : PostNew_Npm(r, ok, k)

PostNew_Pip_Step(r) ==
  At(r, "c_pip") /\ \E ok \in BOOLEAN, k \in BOOLEAN : PostNew_Pip(r, ok, k)

PostNew_Enable_Step(r) ==
  At(r, "c_enable") /\ \E ok \in BOOLEAN : PostNew_Enable(r, ok)

PostUpdate_Begin_Step(r) ==
  CanArrive(r) /\ \E d \in DomainInputs : PostUpdate_Begin(r, d)

PostUpdate_Pull_Step(r) ==
  /\ At(r, "u_pull")
  /\ \E ok \in BOOLEAN, t \in PullTrees, k \in BOOLEAN :
       PostUpdate_Pull(r, ok, t, k)

PostUpdate_Npm_Step(r) ==
  At(r, "u_npm") /\ \E ok \in BOOLEAN, k \in BOOLEAN : PostUpdate_Npm(r, ok, k)

PostUpdate_Pip_Step(r) ==
  At(r, "u_pip") /\ \E ok \in BOOLEAN, k \in BOOLEAN : PostUpdate_Pip(r, ok, k)

PostDelete_Step(r) ==
  CanArrive(r) /\ \E d \in DomainInputs : PostDelete(r, d)

PostRun_Step(r) ==
  /\ CanArrive(r)
  /\ \E d \in DomainInputs, c \in RunCmdInputs, k \in BOOLEAN :
       PostRun(r, d, c, k)

PostStop_Step(r) ==
  CanArrive(r) /\ \E d \in DomainInputs, k \in BOOLEAN : PostStop(r, d, k)

Next ==
  \E r \in Reqs :
    \/ PostNew_Begin_Step(r)
    \/ PostNew_Access(r)
    \/ PostNew_Mkdir_Step(r)
    \/ PostNew_Access2(r)
    \/ PostNew_Readdir_Step(r)
    \/ PostNew_Rm_Step(r)
    \/ PostNew_Clone_Step(r)
    \/ PostNew_Npm_Step(r)
    \/ PostNew_Pip_Step(r)
    \/ PostNew_Enable_Step(r)
    \/ PostUpdate_Begin_Step(r)
    \/ PostUpdate_Pull_Step(r)
    \/ PostUpdate_Npm_Step(r)
    \/ PostUpdate_Pip_Step(r)
    \/ PostDelete_Step(r)
    \/ PostRun_Step(r)
    \/ PostStop_Step(r)
    \/ Respond(r)

Spec == Init /\ [][Next]_vars

\* -------------------------------------------------- the config handlers
PostNginx_Begin_Step(r) ==
  CanArrive(r) /\ \E f \in NginxForms : PostNginx_Begin(r, f.domain, f.root, f.port)

PostNginx_Enable_Step(r) ==
  At(r, "n_enable") /\ \E ok \in BOOLEAN : PostNginx_Enable(r, ok)

PostSsl_Begin_Step(r) ==
  CanArrive(r) /\ \E f \in SslForms : PostSsl_Begin(r, f.domain, f.material)

PostSsl_Extract_Step(r) ==
  At(r, "s_extract") /\ \E ok \in BOOLEAN : PostSsl_Extract(r, ok)

PostSsl_Enable_Step(r) ==
  At(r, "s_enable") /\ \E ok \in BOOLEAN : PostSsl_Enable(r, ok)

PostSsl_Test_Step(r) ==
  At(r, "s_test") /\ \E ok \in BOOLEAN : PostSsl_Test(r, ok)

\* The handlers that write the store, the certificate files and the
\* configs: Create, Delete, the simple-mode editor and the TLS install.
NextConfig ==
  \E r \in Reqs :
    \/ PostNew_Begin_Step(r)
    \/ PostNew_Access(r)
    \/ PostNew_Mkdir_Step(r)
    \/ PostNew_Access2(r)
    \/ PostNew_Readdir_Step(r)
    \/ PostNew_Rm_Step(r)
    \/ PostNew_Clone_Step(r)
    \/ PostNew_Npm_Step(r)
    \/ PostNew_Pip_Step(r)
    \/ PostNew_Enable_Step(r)
    \/ PostDelete_Step(r)
    \/ PostNginx_Begin_Step(r)
    \/ PostNginx_Enable_Step(r)
    \/ PostSsl_Begin_Step(r)
    \/ PostSsl_Extract_Step(r)
    \/ PostSsl_Enable_Step(r)
    \/ PostSsl_Test_Step(r)
    \/ Respond(r)

SpecConfig == Init /\ [][NextConfig]_vars

\* The same handlers from a deployment whose ssl/ directory may already
\* hold one certificate file of a domain without its partner (an operator
\* copied it there; POST /ssl itself writes the two together).
InitTls ==
  /\ sitesFile = <<>>
  /\ runningProcs = [d \in DomainInputs |-> NoChild]
  /\ children = <<>>
  /\ killCalled = {}
  /\ signalled = {}
  /\ parentDir \in {"missing", "writable"}
  /\ rootDir = [p \in Roots |-> Absent]
  /\ configs = [d \in DomainInputs |-> NoConfig]
  /\ sslFiles \in {{}, {certPath("a.test")}, {keyPath("b.test")}}
  /\ (parentDir = "missing" => sslFiles = {})
  /\ (parentDir = "writable" => sslFiles # {})
  /\ rendered = <<>>
  /\ req = [r \in Reqs |-> Idle]
  /\ arrivals = 0
  /\ cachedSites = <<>>
  /\ malformed = FALSE
  /\ errored = {}
  /\ listing = NoListing
  /\ logs = <<>>
  /\ logged = <<>>
  /\ exited = {}

SpecTls == InitTls /\ [][NextConfig]_vars

\* --------------------------------------------------- every entry point
GetNginx_Step(r) ==
  CanArrive(r) /\ \E d \in OptDomainInputs : GetNginx(r, d)

GetNginxExpert_Step(r) ==
  CanArrive(r) /\ \E d \in OptDomainInputs : GetNginxExpert(r, d)

PostNginxExpert_Begin_Step(r) ==
  /\ CanArrive(r)
  /\ \E d \in OptDomainInputs, ok \in BOOLEAN : PostNginxExpert_Begin(r, d, ok)

PostNginxExpert_Reload_Step(r) ==
  At(r, "x_reload") /\ \E ok \in BOOLEAN : PostNginxExpert_Reload(r, ok)

PostFix_Begin_Step(r) ==
  CanArrive(r) /\ \E d \in OptDomainInputs : PostFix_Begin(r, d)

PostFix_Exec_Step(r) ==
  At(r, "f_exec") /\ \E ok \in BOOLEAN : PostFix_Exec(r, ok)

PostBackup_Begin_Step(r) ==
  CanArrive(r) /\ \E d \in DomainInputs : PostBackup_Begin(r, d)

PostBackup_Archive_Step(r) ==
  At(r, "b_archive") /\ \E ok \in BOOLEAN : PostBackup_Archive(r, ok)

GetConfig_Step(r) ==
  CanArrive(r) /\ \E d \in DomainInputs : GetConfig(r, d)

GetSsl_Step(r) ==
  CanArrive(r) /\ \E d \in DomainInputs : GetSsl(r, d)

GetSslTest_Begin_Step(r) ==
  CanArrive(r) /\ \E d \in DomainInputs : GetSslTest_Begin(r, d)

GetSslTest_Test_Step(r) ==
  At(r, "t_test") /\ \E ok \in BOOLEAN : GetSslTest_Test(r, ok)

PostDns_Begin_Step(r) ==
  /\ CanArrive(r)
  /\ \E d \in OptDomainInputs, creds \in BOOLEAN : PostDns_Begin(r, d, creds)

PostDns_Ip_Step(r) ==
  At(r, "d_ip") /\ \E ok \in BOOLEAN : PostDns_Ip(r, ok)

PostDns_Update_Step(r) ==
  At(r, "d_update") /\ \E ok \in BOOLEAN : PostDns_Update(r, ok)

GetTest_Begin_Step(r) ==
  CanArrive(r) /\ \E d \in DomainInputs : GetTest_Begin(r, d)

GetTest_Ip_Step(r) ==
  At(r, "v_ip") /\ \E ok \in BOOLEAN : GetTest_Ip(r, ok)

GetTest_Request_Step(r) ==
  At(r, "v_request") /\ \E ok \in BOOLEAN : GetTest_Request(r, ok)

\* Every handler that takes a domain, with the requests handled one at a
\* time (in the first slot).
NextEntry ==
  \E r \in {1} :
    \/ PostNew_Begin_Step(r)
    \/ PostNew_Access(r)
    \/ PostNew_Mkdir_Step(r)
    \/ PostNew_Access2(r)
    \/ PostNew_Readdir_Step(r)
    \/ PostNew_Rm_Step(r)
    \/ PostNew_Clone_Step(r)
    \/ PostNew_Npm_Step(r)
    \/ PostNew_Pip_Step(r)
    \/ PostNew_Enable_Step(r)
    \/ PostUpdate_Begin_Step(r)
    \/ PostUpdate_Pull_Step(r)
    \/ PostUpdate_Npm_Step(r)
    \/ PostUpdate_Pip_Step(r)
    \/ PostDelete_Step(r)
    \/ PostRun_Step(r)
    \/ PostStop_Step(r)
    \/ PostNginx_Begin_Step(r)
    \/ PostNginx_Enable_Step(r)
    \/ PostSsl_Begin_Step(r)
    \/ PostSsl_Extract_Step(r)
    \/ PostSsl_Enable_Step(r)
    \/ PostSsl_Test_Step(r)
    \/ GetNginx_Step(r)
    \/ GetNginxExpert_Step(r)
    \/ PostNginxExpert_Begin_Step(r)
    \/ PostNginxExpert_Reload_Step(r)
    \/ PostFix_Begin_Step(r)
    \/ PostFix_Exec_Step(r)
    \/ PostBackup_Begin_Step(r)
    \/ PostBackup_Archive_Step(r)
    \/ GetConfig_Step(r)
    \/ GetSsl_Step(r)
    \/ GetSslTest_Begin_Step(r)
    \/ GetSslTest_Test_Step(r)
    \/ PostDns_Begin_Step(r)
    \/ PostDns_Ip_Step(r)
    \/ PostDns_Update_Step(r)
    \/ GetTest_Begin_Step(r)
    \/ GetTest_Ip_Step(r)
    \/ GetTest_Request_Step(r)
    \/ Respond(r)

SpecEntry == Init /\ [][NextEntry]_vars

\* ------------------------------------------- GET / and checkSiteStatus
\* The most outcome events of one probe request that are followed.
MaxEvents == 2

\* The status codes a probed site answers with.
Statuses == {200, 399, 400, 503}

NoVerdict == [level |-> "none", message |-> <<>>]
NoEvent == <<>>

\* !fs.existsSync(site.root) || !fs.existsSync(configPath), looking at only
\* the root.
MissingFiles_RootOnly(w, site) == w.root[site.root].kind = "absent"

\* !fs.existsSync(site.root) || !fs.existsSync(configPath)
MissingFiles(w, site) ==
  w.root[site.root].kind = "absent" \/ w.configs[site.domain] = NoConfig

\* The callback of http.get with <= in place of <.
ResponseVerdict_Inclusive(status) ==
  IF status <= 400
  THEN [level |-> "ok", message |-> <<"Site reachable">>]
  ELSE [level |-> "warning", message |-> <<"HTTP", status>>]

\* The callback of http.get: res.statusCode < 400
ResponseVerdict(status) ==
  IF status < 400
  THEN [level |-> "ok", message |-> <<"Site reachable">>]
  ELSE [level |-> "warning", message |-> <<"HTTP", status>>]

\* checkSiteStatus(site) up to its return: the verdict for missing files, or
\* the promise of the request it has sent. first is the outcome event that
\* settled the promise, events the number of outcome events so far.
checkSiteStatus(w, site) ==
  IF MissingFiles(w, site)
  THEN [domain |-> site.domain, requested |-> FALSE,
        verdict |-> [level |-> "error",
                     message |-> <<"Missing files or config">>],
        first |-> NoEvent, events |-> 0]
  ELSE [domain |-> site.domain, requested |-> TRUE, verdict |-> NoVerdict,
        first |-> NoEvent, events |-> 0]

\* What the probe sees of the disk.
Disk == [root |-> rootDir, configs |-> configs]

ProbeIds == 1..Len(listing.probes)
Pending(i) == listing.probes[i].requested /\ listing.probes[i].verdict = NoVerdict
Settled(i) == listing.probes[i].verdict # NoVerdict

\* The steps of GET / and the events of its requests leave the disk, the
\* store and the processes alone; loads says whether loadSites() is called.
ListingStep(loads) ==
  /\ Quiet
  /\ SameFiles
  /\ cachedSites' = IF loads THEN loadSites ELSE cachedSites
  /\ UNCHANGED <<rootDir, parentDir, sslFiles, req, arrivals>>

\* A variant of the first stretch of GET / that renders the config of every
\* listed site before it probes.
GetIndex_Begin_Repair ==
  /\ Quiet
  /\ listing.pc = "idle"
  /\ UNCHANGED <<rootDir, parentDir, sslFiles, req, arrivals, sitesFile,
                 runningProcs, children, killCalled, signalled, malformed,
                 errored, logs, logged, exited>>
  /\ cachedSites' = loadSites
  /\ configs' = [d \in DomainInputs |->
                   IF HasSite(loadSites, d)
                   THEN configText(FindSite(loadSites, d), FALSE)
                   ELSE configs[d]]
  /\ rendered' = rendered \o [i \in 1..Len(loadSites) |->
                                Rendering(loadSites[i], FALSE,
                                          configText(loadSites[i], FALSE))]
  /\ listing' = [pc |-> "probing", sites |-> loadSites,
                 probes |-> [i \in 1..Len(loadSites) |->
                               checkSiteStatus([root |-> rootDir,
                                                configs |-> configs'],
                                               loadSites[i])],
                 statuses |-> <<>>]

\* GET /: loadSites(), then sites.map(checkSiteStatus), which runs every
\* probe up to its request, then the await of Promise.all.
GetIndex_Begin ==
  /\ listing.pc = "idle"
  /\ ListingStep(TRUE)
  /\ listing' = [pc |-> "probing", sites |-> loadSites,
                 probes |-> [i \in 1..Len(loadSites) |->
                               checkSiteStatus(Disk, loadSites[i])],
                 statuses |-> <<>>]

\* An outcome event of probe i's request: the promise takes the verdict of
\* the first one, resolve() of a settled promise does nothing.
Outcome(i, event, verdict) ==
  /\ listing.pc # "idle"
  /\ i \in ProbeIds
  /\ listing.probes[i].requested
  /\ listing.probes[i].events < MaxEvents
  /\ ListingStep(FALSE)
  /\ listing' = [listing EXCEPT
       !.probes[i] = IF @.verdict = NoVerdict
                     THEN [@ EXCEPT !.verdict = verdict, !.first = event,
                                    !.events = @ + 1]
                     ELSE [@ EXCEPT !.events = @ + 1]]

\* http.get's callback: the response has arrived.
ProbeResponse(i, status) ==
  Outcome(i, <<"response", status>>, ResponseVerdict(status))

\* req.on('error', ...)
ProbeError(i) ==
  Outcome(i, <<"error">>, [level |-> "warning", message |-> <<"Request failed">>])

\* A variant of the timeout callback that assigns the verdict instead of
\* resolving a promise.
ProbeTimeout_Overwrite(i) ==
  /\ listing.pc # "idle"
  /\ i \in ProbeIds
  /\ listing.probes[i].requested
  /\ listing.probes[i].events < MaxEvents
  /\ ListingStep(FALSE)
  /\ listing' = [listing EXCEPT
       !.probes[i] = [@ EXCEPT !.verdict = [level |-> "warning",
                                            message |-> <<"Timeout">>],
                               !.first = IF @ = NoEvent THEN <<"timeout">> ELSE @,
                               !.events = @ + 1]]

\* req.setTimeout(3000, ...): req.destroy(), resolve(...)
ProbeTimeout(i) ==
  Outcome(i, <<"timeout">>, [level |-> "warning", message |-> <<"Timeout">>])

\* Promise.all has resolved: site.status = statuses[idx], then the await of
\* getServerIp().
GetIndex_Gathered ==
  /\ listing.pc = "probing"
  /\ \A i \in ProbeIds : Settled(i)
  /\ ListingStep(FALSE)
  /\ listing' = [listing EXCEPT
       !.pc = "ip",
       !.statuses = [i \in ProbeIds |-> listing.probes[i].verdict]]

\* getServerIp() has returned (an address or null): res.render('index', ...)
GetIndex_Ip ==
  /\ listing.pc = "ip"
  /\ ListingStep(FALSE)
  /\ listing' = [listing EXCEPT !.pc = "done"]

\* The page has been sent.
GetIndex_Respond ==
  /\ listing.pc = "done"
  /\ ListingStep(FALSE)
  /\ listing' = NoListing

ProbeResponse_Step ==
  listing.pc # "idle" /\ \E i \in ProbeIds, status \in Statuses : ProbeResponse(i, status)

ProbeError_Step == listing.pc # "idle" /\ \E i \in ProbeIds : ProbeError(i)

ProbeTimeout_Step == listing.pc # "idle" /\ \E i \in ProbeIds : ProbeTimeout(i)

\* The store and the disk as GET / may find them: up to two sites, each
\* with its root present or not and its config rendered or not.
SiteA ==
  [domain |-> "a.test", repo |-> "git/node", root |-> "/srv/r1",
   port |-> 3000, cmd |-> NoCmd]
SiteB ==
  [domain |-> "b.test", repo |-> "git/static", root |-> "/srv/r2",
   port |-> NoPort, cmd |-> NoCmd]

InitProbe ==
  /\ sitesFile \in {<<>>, <<SiteA>>, <<SiteA, SiteB>>}
  /\ runningProcs = [d \in DomainInputs |-> NoChild]
  /\ children = <<>>
  /\ killCalled = {}
  /\ signalled = {}
  /\ parentDir = "writable"
  /\ rootDir \in [Roots -> {Absent, Cloned(RepoTree("git/static"))}]
  /\ \E ca, cb \in BOOLEAN :
       configs = [d \in DomainInputs |->
                    IF d = "a.test" /\ ca THEN configText(SiteA, FALSE)
                    ELSE IF d = "b.test" /\ cb THEN configText(SiteB, FALSE)
                    ELSE NoConfig]
  /\ sslFiles = {}
  /\ rendered = <<>>
  /\ req = [r \in Reqs |-> Idle]
  /\ arrivals = 0
  /\ cachedSites = sitesFile
  /\ malformed = FALSE
  /\ errored = {}
  /\ listing = NoListing
  /\ logs = <<>>
  /\ logged = <<>>
  /\ exited = {}

NextProbe ==
  \/ GetIndex_Begin
  \/ ProbeResponse_Step
  \/ ProbeError_Step
  \/ ProbeTimeout_Step
  \/ GetIndex_Gathered
  \/ GetIndex_Ip
  \/ GetIndex_Respond

SpecProbe == InitProbe /\ [][NextProbe]_vars

\* The timer set by req.setTimeout fires for a request that has had no
\* outcome, and the steps of the handler are taken.
SpecProbeFair ==
  /\ SpecProbe
  /\ \A i \in 1..2 : WF_vars(i \in ProbeIds /\ Pending(i) /\ ProbeTimeout(i))
  /\ WF_vars(GetIndex_Gathered)
  /\ WF_vars(GetIndex_Ip)
  /\ WF_vars(GetIndex_Respond)

\* Create requests, handled one at a time (in the first slot), interleaved
\* with GET / and the events of its probes.
NextCreateProbe ==
  \/ \E r \in {1} :
       \/ PostNew_Begin_Step(r)
       \/ PostNew_Access(r)
       \/ PostNew_Mkdir_Step(r)
       \/ PostNew_Access2(r)
       \/ PostNew_Readdir_Step(r)
       \/ PostNew_Rm_Step(r)
       \/ PostNew_Clone_Step(r)
       \/ PostNew_Npm_Step(r)
       \/ PostNew_Pip_Step(r)
       \/ PostNew_Enable_Step(r)
       \/ Respond(r)
  \/ GetIndex_Begin
  \/ ProbeResponse_Step
  \/ ProbeError_Step
  \/ ProbeTimeout_Step
  \/ GetIndex_Gathered
  \/ GetIndex_Ip
  \/ GetIndex_Respond

SpecCreateProbe == Init /\ [][NextCreateProbe]_vars

\* ------------------------------------------------ sites.json goes bad
\* Something outside the engine leaves sites.json unparseable. From then
\* until the next saveSites, sitesFile stands for what the file last held
\* while it parsed; no handler can read that from the file any more.
Corrupt ==
  /\ Quiet
  /\ ~malformed
  /\ malformed' = TRUE
  /\ UNCHANGED <<sitesFile, runningProcs, children, killCalled, signalled,
                 rootDir, parentDir, configs, sslFiles, rendered, req,
                 arrivals, cachedSites, errored, listing, logs,
                 logged, exited>>

\* A running server whose store is empty, or holds one or two sites that
\* it has loaded.
InitStore ==
  /\ sitesFile \in {<<>>, <<SiteB>>, <<SiteA, SiteB>>}
  /\ runningProcs = [d \in DomainInputs |-> NoChild]
  /\ children = <<>>
  /\ killCalled = {}
  /\ signalled = {}
  /\ parentDir \in {"missing", "writable"}
  /\ (parentDir = "missing" <=> sitesFile = <<>>)
  /\ rootDir = [p \in Roots |->
                  IF \E i \in 1..Len(sitesFile) : sitesFile[i].root = p
                  THEN Cloned(RepoTree(FindSite(sitesFile,
                         IF p = "/srv/r1" THEN "a.test" ELSE "b.test").repo))
                  ELSE Absent]
  /\ configs = [d \in DomainInputs |->
                  IF HasSite(sitesFile, d)
                  THEN configText(FindSite(sitesFile, d), FALSE)
                  ELSE NoConfig]
  /\ sslFiles = {}
  /\ rendered = <<>>
  /\ req = [r \in Reqs |-> Idle]
  /\ arrivals = 0
  /\ cachedSites = sitesFile
  /\ malformed = FALSE
  /\ errored = {}
  /\ listing = NoListing
  /\ logs = <<>>
  /\ logged = <<>>
  /\ exited = {}

\* Create, Delete and a reader of the list, one request at a time, while
\* the file may go bad at any moment.
NextStore ==
  \/ \E r \in {1} :
       \/ PostNew_Begin_Step(r)
       \/ PostNew_Access(r)
       \/ PostNew_Mkdir_Step(r)
       \/ PostNew_Access2(r)
       \/ PostNew_Readdir_Step(r)
       \/ PostNew_Rm_Step(r)
       \/ PostNew_Clone_Step(r)
       \/ PostNew_Npm_Step(r)
       \/ PostNew_Pip_Step(r)
       \/ PostNew_Enable_Step(r)
       \/ PostDelete_Step(r)
       \/ GetNginx_Step(r)
       \/ Respond(r)
  \/ Corrupt

SpecStore == InitStore /\ [][NextStore]_vars

\* ------------------------------------------------- a launch that fails
\* A variant of a child without the 'error' listener: the event is thrown
\* in the server process, which dies with its handlers and its table.
ChildError_Unhandled(c) ==
  /\ c \notin errored
  /\ c \notin signalled
  /\ errored' = errored \cup {c}
  /\ req' = [r \in Reqs |-> Idle]
  /\ runningProcs' = [d \in DomainInputs |-> NoChild]
  /\ UNCHANGED <<sitesFile, children, killCalled, signalled, rootDir,
                 parentDir, configs, sslFiles, rendered, arrivals,
                 cachedSites, malformed, listing, logs,
                 logged, exited>>

\* child.on('error', ...): the launch of child c has failed (it has no
\* pid); the listener logs the failure with console.error.
ChildError(c) ==
  /\ c \notin errored
  /\ c \notin signalled
  /\ errored' = errored \cup {c}
  /\ UNCHANGED <<sitesFile, runningProcs, children, killCalled, signalled,
                 rootDir, parentDir, configs, sslFiles, rendered, req,
                 arrivals, cachedSites, malformed, listing, logs,
                 logged, exited>>

ChildError_Step ==
  children # <<>> /\ \E c \in 1..Len(children) : ChildError(c)

\* Create, Update, Run and Stop, one request at a time, with launches that
\* may fail.
NextLaunch ==
  \/ \E r \in {1} :
       \/ PostNew_Begin_Step(r)
       \/ PostNew_Access(r)
       \/ PostNew_Mkdir_Step(r)
       \/ PostNew_Access2(r)
       \/ PostNew_Readdir_Step(r)
       \/ PostNew_Rm_Step(r)
       \/ PostNew_Clone_Step(r)
       \/ PostNew_Npm_Step(r)
       \/ PostNew_Pip_Step(r)
       \/ PostNew_Enable_Step(r)
       \/ PostUpdate_Begin_Step(r)
       \/ PostUpdate_Pull_Step(r)
       \/ PostUpdate_Npm_Step(r)
       \/ PostUpdate_Pip_Step(r)
       \/ PostRun_Step(r)
       \/ PostStop_Step(r)
       \/ Respond(r)
  \/ ChildError_Step

SpecLaunch == Init /\ [][NextLaunch]_vars

\* ------------------------------------------------------------ the log store
\* console.log and console.error are overridden when the module loads: each
\* call, wherever a handler makes it, appends one entry to logs and drops
\* the oldest entry once the array holds more than LogCap. The calls are
\* taken here on their own, as a stream; an entry's time is the ordinal of
\* the call, standing for the clock that is read at the call.
LogCap == 200
MaxCalls == 203

\* A variant that makes room by dropping the entry just pushed.
Record_DropNewest(buf, entry) ==
  LET pushed == Append(buf, entry)
  IN IF Len(pushed) > LogCap THEN SubSeq(pushed, 1, Len(pushed) - 1)
     ELSE pushed

\* logs.push(entry); if (logs.length > 200) logs.shift();
Record(buf, entry) ==
  LET pushed == Append(buf, entry)
  IN IF Len(pushed) > LogCap THEN Tail(pushed) ELSE pushed

LogEntry(level) == [level |-> level, time |-> Len(logged) + 1]

Console(level) ==
  /\ Len(logged) < MaxCalls
  /\ logs' = Record(logs, LogEntry(level))
  /\ logged' = Append(logged, LogEntry(level))
  /\ UNCHANGED <<sitesFile, runningProcs, children, killCalled, signalled,
                 rootDir, parentDir, configs, sslFiles, rendered, req,
                 arrivals, cachedSites, malformed, errored, listing, exited>>

ConsoleLog == Console("log")

\* Error entries are taken one at a time: the next one is logged once the
\* last one has left the array.
ConsoleError ==
  /\ \A i \in 1..Len(logs) : logs[i].level # "error"
  /\ Console("error")

NextLog ==
  \/ ConsoleLog
  \/ ConsoleError

SpecLog == Init /\ [][NextLog]_vars

\* ------------------------------------------------------- the suggested port
FirstPort == 3001

\* sites.map(s => Number(s.port)).filter(Boolean): the ports of the stored
\* records, those without a port left out.
UsedPorts(sites) == {sites[i].port : i \in 1..Len(sites)} \ {NoPort}

\* while (used.includes(port)) port++;
RECURSIVE NextFree(_, _)
NextFree(used, port) ==
  IF port \in used THEN NextFree(used, port + 1) ELSE port

\* A variant that suggests the port after the largest one in use.
defaultPort_AfterLargest(sites) ==
  LET used == UsedPorts(sites) \cup {FirstPort - 1}
  IN (CHOOSE p \in used : \A q \in used : q <= p) + 1

defaultPort(sites) == NextFree(UsedPorts(sites), FirstPort)

\* GET /new: the form, its port field filled with the suggestion.
GetNew(r) ==
  /\ Arrive(r)
  /\ UNCHANGED <<sitesFile, runningProcs, children, killCalled, signalled,
                 configs, rendered, malformed, errored, listing, rootDir,
                 parentDir, sslFiles, exited>>
  /\ cachedSites' = loadSites
  /\ logs' = Record(logs, LogEntry("log"))
  /\ logged' = Append(logged, LogEntry("log"))
  /\ Answer(r, [Loaded([Idle EXCEPT !.op = "get_new"]) EXCEPT
                  !.sites = loadSites,
                  !.port = PortText(defaultPort(loadSites))],
            "page")

GetNew_Step(r) == CanArrive(r) /\ GetNew(r)

\* The stores the form is asked for: none, one or both of two sites, in
\* either order, each with any of these ports.
StoredPorts == {NoPort, FirstPort - 1, FirstPort, FirstPort + 1, FirstPort + 2}

StoredLists ==
  {<<>>}
  \cup {<<[SiteA EXCEPT !.port = p]>> : p \in StoredPorts}
  \cup {<<[SiteB EXCEPT !.port = p]>> : p \in StoredPorts}
  \cup {<<[SiteA EXCEPT !.port = p], [SiteB EXCEPT !.port = q]>> :
          p \in StoredPorts, q \in StoredPorts}
  \cup {<<[SiteB EXCEPT !.port = q], [SiteA EXCEPT !.port = p]>> :
          p \in StoredPorts, q \in StoredPorts}

InitSuggest ==
  /\ sitesFile \in StoredLists
  /\ runningProcs = [d \in DomainInputs |-> NoChild]
  /\ children = <<>>
  /\ killCalled = {}
  /\ signalled = {}
  /\ parentDir = IF sitesFile = <<>> THEN "missing" ELSE "writable"
  /\ rootDir = [p \in Roots |->
                  IF \E i \in 1..Len(sitesFile) : sitesFile[i].root = p
                  THEN Cloned(RepoTree(FindSite(sitesFile,
                         IF p = "/srv/r1" THEN "a.test" ELSE "b.test").repo))
                  ELSE Absent]
  /\ configs = [d \in DomainInputs |->
                  IF HasSite(sitesFile, d)
                  THEN configText(FindSite(sitesFile, d), FALSE)
                  ELSE NoConfig]
  /\ sslFiles = {}
  /\ rendered = <<>>
  /\ req = [r \in Reqs |-> Idle]
  /\ arrivals = 0
  /\ cachedSites = sitesFile
  /\ malformed = FALSE
  /\ errored = {}
  /\ listing = NoListing
  /\ logs = <<>>
  /\ logged = <<>>
  /\ exited = {}

NextSuggest ==
  \E r \in {1} :
    \/ GetNew_Step(r)
    \/ Respond(r)

SpecSuggest == InitSuggest /\ [][NextSuggest]_vars

\* ----------------------------------------------------- starts, interleaved
\* Create, Update and Run, any two of them in flight at a time, with no
\* Stop and no Delete.
NextStarts ==
  \E r \in Reqs :
    \/ PostNew_Begin_Step(r)
    \/ PostNew_Access(r)
    \/ PostNew_Mkdir_Step(r)
    \/ PostNew_Access2(r)
    \/ PostNew_Readdir_Step(r)
    \/ PostNew_Rm_Step(r)
    \/ PostNew_Clone_Step(r)
    \/ PostNew_Npm_Step(r)
    \/ PostNew_Pip_Step(r)
    \/ PostNew_Enable_Step(r)
    \/ PostUpdate_Begin_Step(r)
    \/ PostUpdate_Pull_Step(r)
    \/ PostUpdate_Npm_Step(r)
    \/ PostUpdate_Pip_Step(r)
    \/ PostRun_Step(r)
    \/ Respond(r)

SpecStarts == Init /\ [][NextStarts]_vars

\* ------------------------------------------------------------ process exit
\* A variant with an 'exit' listener that forgets the child.
ChildExit_Untrack(c) ==
  /\ c \notin exited
  /\ c \notin errored
  /\ c \notin signalled
  /\ exited' = exited \cup {c}
  /\ runningProcs' = [d \in DomainInputs |->
                        IF runningProcs[d] = c THEN NoChild ELSE runningProcs[d]]
  /\ UNCHANGED <<sitesFile, children, killCalled, signalled, rootDir,
                 parentDir, configs, sslFiles, rendered, req, arrivals,
                 cachedSites, malformed, errored, listing, logs, logged>>

\* The process of child c, which was launched and has not been signalled,
\* exits on its own. The launchers register a listener for 'error' only and
\* unref the child: nothing in the program runs when it exits.
ChildExit(c) ==
  /\ c \notin exited
  /\ c \notin errored
  /\ c \notin signalled
  /\ exited' = exited \cup {c}
  /\ UNCHANGED <<sitesFile, runningProcs, children, killCalled, signalled,
                 rootDir, parentDir, configs, sslFiles, rendered, req,
                 arrivals, cachedSites, malformed, errored, listing, logs,
                 logged>>

ChildExit_Step ==
  children # <<>> /\ \E c \in 1..Len(children) : ChildExit(c)

\* Create, Update, Run and Stop, one request at a time, with launches that
\* may fail and processes that may exit.
NextSupervise ==
  \/ \E r \in {1} :
       \/ PostNew_Begin_Step(r)
       \/ PostNew_Access(r)
       \/ PostNew_Mkdir_Step(r)
       \/ PostNew_Access2(r)
       \/ PostNew_Readdir_Step(r)
       \/ PostNew_Rm_Step(r)
       \/ PostNew_Clone_Step(r)
       \/ PostNew_Npm_Step(r)
       \/ PostNew_Pip_Step(r)
       \/ PostNew_Enable_Step(r)
       \/ PostUpdate_Begin_Step(r)
       \/ PostUpdate_Pull_Step(r)
       \/ PostUpdate_Npm_Step(r)
       \/ PostUpdate_Pip_Step(r)
       \/ PostRun_Step(r)
       \/ PostStop_Step(r)
       \/ Respond(r)
  \/ ChildError_Step
  \/ ChildExit_Step

SpecSupervise == Init /\ [][NextSupervise]_vars

\* ------------------------------------------------- a site that is running
\* The state a Create of SiteA leaves behind, alone or next to SiteB: the
\* record stored, the tree cloned, the config rendered, and the child that
\* startApp launched tracked for the domain.
InitRunning ==
  /\ sitesFile \in {<<SiteA>>, <<SiteB, SiteA>>}
  /\ children = <<NewChild(<<>>, SiteA.domain, "startApp", "npm start",
                           SiteA.root, PortText(SiteA.port))>>
  /\ runningProcs = [d \in DomainInputs |->
                       IF d = SiteA.domain THEN 1 ELSE NoChild]
  /\ killCalled = {}
  /\ signalled = {}
  /\ parentDir = "writable"
  /\ rootDir = [p \in Roots |->
                  IF \E i \in 1..Len(sitesFile) : sitesFile[i].root = p
                  THEN Cloned(RepoTree(FindSite(sitesFile,
                         IF p = "/srv/r1" THEN "a.test" ELSE "b.test").repo))
                  ELSE Absent]
  /\ configs = [d \in DomainInputs |->
                  IF HasSite(sitesFile, d)
                  THEN configText(FindSite(sitesFile, d), FALSE)
                  ELSE NoConfig]
  /\ sslFiles = {}
  /\ rendered = <<>>
  /\ req = [r \in Reqs |-> Idle]
  /\ arrivals = 0
  /\ cachedSites = sitesFile
  /\ malformed = FALSE
  /\ errored = {}
  /\ listing = NoListing
  /\ logs = <<>>
  /\ logged = <<>>
  /\ exited = {}

\* Delete, Run and Stop, one request at a time, while the process may exit.
NextRunning ==
  \/ \E r \in {1} :
       \/ PostDelete_Step(r)
       \/ PostRun_Step(r)
       \/ PostStop_Step(r)
       \/ Respond(r)
  \/ ChildExit_Step

SpecRunning == InitRunning /\ [][NextRunning]_vars

\* ------------------------------------------- config operations, in sequence
\* Create, the simple-mode edit and the TLS install, one request at a time.
NextSimple ==
  \E r \in {1} :
    \/ PostNew_Begin_Step(r)
    \/ PostNew_Access(r)
    \/ PostNew_Mkdir_Step(r)
    \/ PostNew_Access2(r)
    \/ PostNew_Readdir_Step(r)
    \/ PostNew_Rm_Step(r)
    \/ PostNew_Clone_Step(r)
    \/ PostNew_Npm_Step(r)
    \/ PostNew_Pip_Step(r)
    \/ PostNew_Enable_Step(r)
    \/ PostNginx_Begin_Step(r)
    \/ PostNginx_Enable_Step(r)
    \/ PostSsl_Begin_Step(r)
    \/ PostSsl_Extract_Step(r)
    \/ PostSsl_Enable_Step(r)
    \/ PostSsl_Test_Step(r)
    \/ Respond(r)

SpecSimple == InitTls /\ [][NextSimple]_vars

\* ------------------------------------------------------------------ claims
\* The handler of slot r took the step.
Acted(r) == req'[r] # req[r]

\* The children spawned by the step.
Launched == SubSeq(children', Len(children) + 1, Len(children'))

\* The most recently spawned child of domain d (NoChild when there is none).
LastChildOf(d) ==
  IF \E i \in 1..Len(children) : children[i].domain = d
  THEN CHOOSE i \in 1..Len(children) :
         /\ children[i].domain = d
         /\ \A j \in 1..Len(children) : children[j].domain = d => j <= i
  ELSE NoChild

\* C1: whichever start strategy is used, every process that was started for
\* a domain and is no longer the tracked one has been sent a termination
\* signal (process.kill was called on its group), so that start after start
\* leaves one tracked process and all earlier ones signalled.
C1_EarlierStartsSignalled ==
  \A i \in 1..Len(children) :
    runningProcs[children[i].domain] # i => i \in killCalled

\* C2: a domain has at most one tracked process, and it is the one launched
\* by the most recent start for that domain: every step that starts a
\* process for d leaves exactly that new process tracked for d, and a
\* tracked entry is never anything but the domain's latest child (it is
\* absent only after that child's group was signalled by a stop).
C2_TrackedIsLatest ==
  \A d \in DomainInputs :
    /\ runningProcs[d] \in {NoChild, LastChildOf(d)}
    /\ runningProcs[d] = NoChild /\ LastChildOf(d) # NoChild
         => LastChildOf(d) \in killCalled

C2_StartStep ==
  /\ Len(children') \in {Len(children), Len(children) + 1}
  /\ Len(children') = Len(children) + 1 =>
       /\ runningProcs'[children'[Len(children')].domain] = Len(children')
       /\ \A d \in DomainInputs :
            d # children'[Len(children')].domain =>
              runningProcs'[d] = runningProcs[d]

\* C2: both parts, on every step: the tracked entry of a domain is its most
\* recent start, and a start leaves exactly the new process tracked.
C2_OneTrackedMostRecent == [][C2_TrackedIsLatest' /\ C2_StartStep]_vars

\* C2's case: cmd1 was started for a domain, then cmd2, both by
\* runSiteCommand, and the tracked process is the one running cmd2.
C2_Witness ==
  \E d \in ValidDomains :
    /\ Len(children) = 2
    /\ children[1].domain = d /\ children[1].cmd = "cmd1"
    /\ children[2].domain = d /\ children[2].cmd = "cmd2"
    /\ children[1].via = "runSiteCommand" /\ children[2].via = "runSiteCommand"
    /\ runningProcs[d] = 2

\* C3: a stop request for a valid domain: when a process is tracked,
\* process.kill is called on its group and the entry is removed whether or
\* not the call succeeded, and the request still ends in its redirect; when
\* none is tracked, nothing is signalled and the table is unchanged; either
\* way no entry is tracked for the domain afterwards.
C3_StopStep(r) ==
  LET d == req'[r].domain
      old == runningProcs[d]
  IN /\ req'[r].pc = "done" /\ req'[r].result = "redirect"
     /\ runningProcs'[d] = NoChild
     /\ \A e \in DomainInputs : e # d => runningProcs'[e] = runningProcs[e]
     /\ children' = children
     /\ IF old # NoChild
        THEN /\ killCalled' = killCalled \cup {old}
             /\ signalled' \in {signalled, signalled \cup {old}}
             /\ req'[r].eff \in {<<"kill">>, <<"kill_failed">>}
             /\ (req'[r].eff = <<"kill">>) = (signalled' = signalled \cup {old})
        ELSE /\ UNCHANGED <<runningProcs, killCalled, signalled>>
             /\ req'[r].eff = <<>>

\* C3: every stop request for a valid domain is such a step.
C3_StopRemovesEntry ==
  [][\A r \in Reqs :
       Acted(r) /\ req'[r].op = "stop" /\ isValidDomain(req'[r].domain)
         => C3_StopStep(r)]_vars

\* C3's case: a stop whose kill threw has answered, and the entry is gone.
C3_Witness ==
  \E r \in Reqs :
    /\ req[r].op = "stop" /\ req[r].pc = "done"
    /\ req[r].eff = <<"kill_failed">>
    /\ req[r].result = "redirect"
    /\ runningProcs[req[r].domain] = NoChild
    /\ killCalled # {}

\* The start step of Create (the stretch that ends at the await of
\* enableSite) and of Update (the stretch that ends in the redirect).
StartStep(r) ==
  \/ req[r].op = "new" /\ req[r].pc # "c_enable" /\ req'[r].pc = "c_enable"
  \/ /\ req'[r].op = "update" /\ req'[r].pc = "done"
     /\ req'[r].result = "redirect"

\* The site the start step is about: root, start command.
StartRoot(r) == IF req'[r].op = "new" THEN req'[r].root ELSE UpdateSite(r).root
StartCmd(r) == IF req'[r].op = "new" THEN req'[r].cmd ELSE UpdateSite(r).cmd

IsCustom(c, cmd) == c.via = "runSiteCommand" /\ c.cmd = cmd
IsStandard(c) == c.via = "startApp" /\ c.cmd = "npm start"

\* C4 as the specification states it: at the start step of Create and
\* Update, a start command launches the custom strategy and nothing else;
\* otherwise a dependency manifest (package.json or requirements.txt) in the
\* tree launches the standard strategy; otherwise nothing is launched.
C4_SelectionAsStated(r) ==
  LET rs == rootDir'[StartRoot(r)] IN
  IF StartCmd(r) # NoCmd
  THEN Len(Launched) = 1 /\ IsCustom(Launched[1], StartCmd(r))
  ELSE IF hasPkg(rs) \/ hasReq(rs)
  THEN Len(Launched) = 1 /\ IsStandard(Launched[1])
  ELSE Launched = <<>>

\* C4 as stated, on every start step of a Create or an Update.
C4_AsStated ==
  [][\A r \in Reqs : Acted(r) /\ StartStep(r) => C4_SelectionAsStated(r)]_vars

\* C4, amended: at the start step of Create and Update, a start command
\* launches the custom strategy with that command and nothing else;
\* otherwise package.json launches the standard strategy (npm start);
\* otherwise requirements.txt together with app.py or main.py launches the
\* Python entry through the custom launcher with the derived command;
\* otherwise nothing is launched. No other step of a Create or Update
\* launches a process, so a request launches at most one.
C4_Selection(r) ==
  LET rs == rootDir'[StartRoot(r)] IN
  IF StartCmd(r) # NoCmd
  THEN Len(Launched) = 1 /\ IsCustom(Launched[1], StartCmd(r))
  ELSE IF hasPkg(rs)
  THEN Len(Launched) = 1 /\ IsStandard(Launched[1])
  ELSE IF hasReq(rs) /\ pythonEntryOf(rs) # NoEntry
  THEN Len(Launched) = 1 /\ IsCustom(Launched[1], PyCmd(pythonEntryOf(rs)))
  ELSE Launched = <<>>

\* C4, amended, on every step of a Create or an Update: the selection at the
\* start step, no launch at any other step, at most one launch per request.
C4_StartSelection ==
  [][\A r \in Reqs :
       Acted(r) /\ req'[r].op \in {"new", "update"} =>
         /\ IF StartStep(r) THEN C4_Selection(r) ELSE Launched = <<>>
         /\ Len(req'[r].spawned) <= 1]_vars

\* C4's case: a Create without start command, of a tree with
\* requirements.txt and app.py but no package.json, has passed its start
\* step and launched the Python entry through runSiteCommand.
C4_Witness ==
  \E r \in Reqs :
    /\ req[r].op = "new" /\ req[r].pc = "c_enable" /\ req[r].cmd = NoCmd
    /\ Len(req[r].spawned) = 1
    /\ children[req[r].spawned[1]].via = "runSiteCommand"
    /\ children[req[r].spawned[1]].cmd = PyCmd("app.py")
    /\ ~hasPkg(rootDir[req[r].root]) /\ hasReq(rootDir[req[r].root])

\* C5: in Create and in Update alike, a request whose dependency install
\* failed still goes on to its start step and ends in its success response
\* (for Create, unless the later reload of the gateway fails).
C5_InstallFailureNonFatal ==
  \A r \in Reqs :
    /\ req[r].pc = "done" /\ req[r].op \in {"new", "update"}
    /\ \E i \in 1..Len(req[r].eff) : req[r].eff[i] \in {"npm_failed", "pip_failed"}
    => req[r].result \in {"redirect", "ReloadFailure"}

\* The side effects logged in eff, as a set.
Tags(eff) == {eff[i] : i \in 1..Len(eff)}

\* The steps of a Create before the fetch is attempted.
PreFetchPcs == {"idle", "c_access", "c_mkdir", "c_access2", "c_readdir"}

\* C6: a Create rejected with InvalidDomain, DuplicateDomain or
\* DestinationNotEmpty has mutated nothing: every step of a Create before
\* the fetch leaves the store, the process table, the children, the signals,
\* the configs and the roots as they were; such a rejection is sent from one
\* of those steps, by a request that never removed a root, fetched, saved,
\* started or stopped a process, rendered, or called the gateway.
C6_Rejected(r) ==
  /\ req[r].pc \in {"idle", "c_readdir"}
  /\ Tags(req'[r].eff) \subseteq {"mkdir"}
  /\ req'[r].spawned = <<>>

\* C6: a rejected Create has mutated nothing, on every step of a Create.
C6_RejectedCreateMutatesNothing ==
  [][\A r \in Reqs :
       Acted(r) /\ req'[r].op = "new" =>
         /\ req[r].pc \in PreFetchPcs =>
              UNCHANGED <<sitesFile, runningProcs, children, killCalled,
                          signalled, configs, rootDir>>
         /\ ( /\ req'[r].pc = "done"
              /\ req'[r].result \in {"InvalidDomain", "DuplicateDomain",
                                     "DestinationNotEmpty"} )
              => C6_Rejected(r)]_vars

\* C6's case: a Create was rejected because its root holds files and
\* overwrite was not requested, while a site is stored and running.
C6_Witness ==
  \E r \in Reqs :
    /\ req[r].op = "new" /\ req[r].pc = "done"
    /\ req[r].result = "DestinationNotEmpty"
    /\ rootDir[req[r].root].kind = "tree"
    /\ sitesFile # <<>> /\ children # <<>>

\* C7: a Create that answers PermissionError or FetchError (the
\* 'destination not empty' answer of a failed clone included) has persisted
\* no record, started no process, written no config and not called the
\* gateway: the answering step leaves store, process table, children,
\* signals and configs as they were, and the request has logged none of
\* those effects before.
C7_Failed(r) ==
  /\ UNCHANGED <<sitesFile, runningProcs, children, killCalled, signalled,
                 configs>>
  /\ Tags(req'[r].eff) \cap {"save", "spawn", "kill", "kill_failed", "render",
                             "enable", "enable_failed"} = {}
  /\ req'[r].spawned = <<>>

\* C7: every step that answers PermissionError or FetchError is such a step.
C7_FailedFetchPersistsNothing ==
  [][\A r \in Reqs :
       /\ Acted(r) /\ req'[r].op = "new" /\ req'[r].pc = "done"
       /\ req'[r].result \in {"PermissionError", "FetchError",
                              "FetchErrorNotEmpty"}
       => C7_Failed(r)]_vars

\* C7's case: a Create whose clone failed after it had removed the old root
\* has answered; its domain has no record, no config and no process.
C7_Witness ==
  \E r \in Reqs :
    /\ req[r].op = "new" /\ req[r].pc = "done" /\ req[r].result = "FetchError"
    /\ req[r].eff = <<"rm", "clone_failed">>
    /\ ~HasSite(sitesFile, req[r].domain)
    /\ configs[req[r].domain] = NoConfig
    /\ runningProcs[req[r].domain] = NoChild

\* C8: an Update of a valid domain that has no record answers NotFound in
\* its first step and changes nothing: no pull, no install, no process
\* stopped or started, no file written.
C8_UpdateUnknownIsNotFound ==
  [][\A r \in Reqs :
       /\ Acted(r) /\ req[r].pc = "idle" /\ req'[r].op = "update"
       /\ isValidDomain(req'[r].domain)
       /\ ~HasSite(sitesFile, req'[r].domain)
       => /\ req'[r].pc = "done" /\ req'[r].result = "NotFound"
          /\ req'[r].eff = <<>> /\ req'[r].spawned = <<>>
          /\ UNCHANGED <<sitesFile, runningProcs, children, killCalled,
                         signalled, configs, rootDir, parentDir, sslFiles>>]_vars

\* C8's case: an Update of a domain without record has answered NotFound
\* while another site is stored with a tracked process.
C8_Witness ==
  \E r \in Reqs :
    /\ req[r].op = "update" /\ req[r].pc = "done" /\ req[r].result = "NotFound"
    /\ sitesFile # <<>>
    /\ \E d \in ValidDomains : runningProcs[d] # NoChild

\* C9: when the pull of an Update fails, the request answers with the
\* failure at once and has done nothing else: no install, no process started
\* or stopped, so the tracked process is still tracked and unsignalled.
C9_FailedPullTouchesNothing ==
  [][\A r \in Reqs :
       /\ Acted(r) /\ req'[r].op = "update"
       /\ "pull_failed" \in Tags(req'[r].eff)
       => /\ req[r].pc = "u_pull" /\ req'[r].pc = "done"
          /\ req'[r].result = "SyncError"
          /\ req'[r].eff = <<"pull_failed">> /\ req'[r].spawned = <<>>
          /\ UNCHANGED <<sitesFile, runningProcs, children, killCalled,
                         signalled, configs, rootDir>>]_vars

\* C9's case: an Update whose pull failed has answered, and the site's
\* process is tracked and no kill was called on it.
C9_Witness ==
  \E r \in Reqs :
    /\ req[r].op = "update" /\ req[r].pc = "done"
    /\ req[r].result = "SyncError" /\ req[r].eff = <<"pull_failed">>
    /\ runningProcs[req[r].domain] # NoChild
    /\ runningProcs[req[r].domain] \notin killCalled

\* C10: when the enable script fails at the end of a Create, nothing is
\* rolled back: the step leaves the store, the process table, the signals
\* and the configs as they were, after the request saved its record and
\* rendered its config, and the response is the failure with the command
\* to run by hand.
C10_ReloadFailureKeepsSite ==
  [][\A r \in Reqs :
       /\ Acted(r) /\ req[r].op = "new" /\ req[r].pc = "c_enable"
       /\ req'[r].result # "redirect"
       => /\ req'[r].pc = "done"
          /\ req'[r].result = "ReloadFailure"
          /\ req'[r].hint = EnableHint(req'[r].domain)
          /\ req'[r].eff = Append(req[r].eff, "enable_failed")
          /\ {"save", "render"} \subseteq Tags(req[r].eff)
          /\ UNCHANGED <<sitesFile, runningProcs, children, killCalled,
                         signalled, configs, rootDir>>]_vars

\* C10's case: a Create has answered ReloadFailure; its record is stored,
\* its config is written, and the process it started is tracked and no kill
\* was called on it.
C10_Witness ==
  \E r \in Reqs :
    /\ req[r].op = "new" /\ req[r].pc = "done"
    /\ req[r].result = "ReloadFailure"
    /\ HasSite(sitesFile, req[r].domain)
    /\ configs[req[r].domain] # NoConfig
    /\ Len(req[r].spawned) = 1
    /\ runningProcs[req[r].domain] = req[r].spawned[1]
    /\ req[r].spawned[1] \notin killCalled

\* The positions of the tags of set T in the effect log eff.
Where(eff, T) == {i \in 1..Len(eff) : eff[i] \in T}

InstallTags == {"npm", "npm_failed", "pip", "pip_failed"}

\* C12: the order of effects within one Create. A process is started only
\* after the fetch succeeded and every install the request runs has
\* finished; the record is saved only after the start step (after fetch,
\* installs and any stop or launch of the start step); the config is
\* rendered only after the save; the gateway is called only after the
\* render.
C12_OrderOf(rq) ==
  LET eff == rq.eff
      StartReady(i) ==
        /\ Where(eff, {"clone"}) \cap 1..(i - 1) # {}
        /\ Where(eff, InstallTags \cup {"clone", "clone_failed"}) \subseteq 1..(i - 1)
  IN /\ \A i \in Where(eff, {"spawn"}) : StartReady(i)
     /\ \A i \in Where(eff, {"save"}) :
          /\ StartReady(i)
          /\ Where(eff, {"spawn", "kill", "kill_failed"}) \subseteq 1..(i - 1)
     /\ \A i \in Where(eff, {"render"}) :
          Where(eff, {"save"}) \cap 1..(i - 1) # {}
     /\ \A i \in Where(eff, {"enable", "enable_failed"}) :
          Where(eff, {"render"}) \cap 1..(i - 1) # {}

\* C12: every Create, at every point of its run, has performed its effects
\* in that order.
C12_CreateStepsInOrder ==
  \A r \in Reqs : req[r].op = "new" => C12_OrderOf(req[r])

\* C12's case: a Create of a tree with package.json and requirements.txt and
\* a start command has gone through every step and answered its redirect.
C12_Witness ==
  \E r \in Reqs :
    /\ req[r].op = "new" /\ req[r].pc = "done" /\ req[r].result = "redirect"
    /\ {"clone", "spawn", "save", "render", "enable"} \subseteq Tags(req[r].eff)
    /\ Where(req[r].eff, {"npm", "npm_failed"}) # {}
    /\ Where(req[r].eff, {"pip", "pip_failed"}) # {}

\* The handler of slot r has begun and not yet answered: it is suspended at
\* an await.
InFlight(r) == req[r].pc \notin {"idle", "done"}

\* C13: at most one lifecycle operation is in flight per domain: no two
\* handlers that have begun and not yet answered work on the same domain.
C13_OneInFlightPerDomain ==
  \A r, q \in Reqs :
    r # q /\ InFlight(r) /\ InFlight(q) => req[r].domain # req[q].domain

\* The records of the domains other than d, in their order.
Others(sites, d) == SelectSeq(sites, LAMBDA s : s.domain # d)

\* C14: a Delete of a valid domain removes that domain's record from the
\* store and nothing else: the records of the other domains stay as they
\* were, the process table, the children and the signals are unchanged (a
\* tracked process stays tracked and is not signalled), and the roots, the
\* rendered configs and the certificate files are untouched.
C14_DeleteRemovesRecordOnly ==
  [][\A r \in Reqs :
       Acted(r) /\ req'[r].op = "delete" /\ isValidDomain(req'[r].domain)
         => /\ req'[r].pc = "done" /\ req'[r].result = "redirect"
            /\ req'[r].eff = <<"save">> /\ req'[r].spawned = <<>>
            /\ ~HasSite(sitesFile', req'[r].domain)
            /\ sitesFile' = Others(sitesFile, req'[r].domain)
            /\ UNCHANGED <<runningProcs, children, killCalled, signalled,
                           rootDir, parentDir, configs, sslFiles>>]_vars

\* C14's case: a Delete has answered for a site that was created with a
\* running process: the record is gone, the process is still tracked and no
\* kill was called on it, the working tree and the config are still there.
C14_Witness ==
  \E r \in Reqs :
    /\ req[r].op = "delete" /\ req[r].pc = "done" /\ req[r].result = "redirect"
    /\ ~HasSite(sitesFile, req[r].domain)
    /\ runningProcs[req[r].domain] # NoChild
    /\ runningProcs[req[r].domain] \notin killCalled
    /\ configs[req[r].domain] # NoConfig
    /\ \E p \in Roots : rootDir[p].kind = "tree"

\* The roots that exist before the step and are gone after it.
Removed == {p \in Roots : rootDir[p] # Absent /\ rootDir'[p] = Absent}

\* C18: a root is removed only by the rm step of a Create that asked for
\* overwrite, it is that Create's own root and it holds files, and the
\* Create has not fetched yet; a Create comes to the rm step only from a
\* readdir that found files in the root, with overwrite requested; every
\* rm in a Create's effect log comes before its clone. So without the
\* opt-in nothing is removed, and an absent or empty root is never removed.
C18_RmOnlyOnOptIn ==
  [][/\ \A p \in Removed :
          \E r \in Reqs :
            /\ Acted(r) /\ req[r].op = "new" /\ req[r].pc = "c_rm"
            /\ req[r].overwrite /\ req[r].root = p
            /\ rootDir[p].kind \in {"stale", "tree"}
            /\ Where(req[r].eff, {"clone", "clone_failed"}) = {}
     /\ \A r \in Reqs :
          /\ Acted(r) /\ req'[r].pc = "c_rm" =>
               /\ req[r].pc = "c_readdir" /\ req'[r].op = "new"
               /\ req'[r].overwrite
               /\ rootDir[req'[r].root].kind \in {"stale", "tree"}
          /\ Acted(r) /\ "rm" \in Tags(req'[r].eff) =>
               /\ req'[r].op = "new" /\ req'[r].overwrite
               /\ \A i \in Where(req'[r].eff, {"rm"}),
                     j \in Where(req'[r].eff, {"clone", "clone_failed"}) : i < j
    ]_vars

\* C18's case: a Create with overwrite found files in its root, removed the
\* root and then fetched into it.
C18_Witness ==
  \E r \in Reqs :
    /\ req[r].op = "new" /\ req[r].overwrite
    /\ Len(req[r].eff) >= 2 /\ req[r].eff[1] = "rm" /\ req[r].eff[2] = "clone"
    /\ rootDir[req[r].root].kind = "tree"

\* C17: no two records of the persisted list have the same root.
C17_RootsExclusive ==
  \A i, j \in 1..Len(sitesFile) :
    i # j => sitesFile[i].root # sitesFile[j].root

\* The steps at which a handler awaits the gateway.
EnablePcs == {"c_enable", "n_enable", "s_enable"}

UniqueDomains(sites) ==
  \A i, j \in 1..Len(sites) : i # j => sites[i].domain # sites[j].domain

\* C16: whatever Creates, Deletes, simple-mode edits and TLS installs have
\* run, one after the other or interleaved, the persisted list never holds
\* two records with the same domain; and a Create of a valid domain that
\* is in the persisted list when the request arrives is answered
\* DuplicateDomain at once and changes nothing.
C16_DomainUnique ==
  [][/\ UniqueDomains(sitesFile')
     /\ \A r \in Reqs :
          /\ Acted(r) /\ req[r].pc = "idle" /\ req'[r].op = "new"
          /\ isValidDomain(req'[r].domain)
          /\ HasSite(sitesFile, req'[r].domain)
          => /\ req'[r].pc = "done" /\ req'[r].result = "DuplicateDomain"
             /\ req'[r].eff = <<>>
             /\ UNCHANGED <<sitesFile, runningProcs, children, killCalled,
                            signalled, configs, rootDir, parentDir, sslFiles>>
    ]_vars

\* C16's case: a Create of a domain that an earlier Create stored was
\* answered DuplicateDomain, and the list holds that one record.
C16_Witness ==
  \E r \in Reqs :
    /\ req[r].op = "new" /\ req[r].pc = "done"
    /\ req[r].result = "DuplicateDomain"
    /\ HasSite(sitesFile, req[r].domain)
    /\ Len(sitesFile) = 1 /\ configs[req[r].domain] # NoConfig

\* The lines of a config text, as a set.
Lines(text) == {text[i] : i \in 1..Len(text)}

\* The text has a proxy rule; it has static-file rules.
HasProxyRule(text) ==
  \E l \in Lines(text) : l[1] = "proxy_pass http://127.0.0.1:"
HasStaticRule(text) ==
  \E l \in Lines(text) :
    l[1] \in {"root", "index index.html index.htm;", "try_files $uri $uri/ =404;"}

\* C19: every config the renderer has written: when the site's port is set
\* it has the proxy rule to 127.0.0.1:<port> and no static-file rule; when
\* the port is unset it has the static-file rules (root <root>, the index
\* line, the try_files fallback to 404) and no proxy rule; never both,
\* whether or not the certificate files were present.
C19_RulesOf(x) ==
  IF x.port # NoPort
  THEN /\ <<"proxy_pass http://127.0.0.1:", x.port>> \in Lines(x.text)
       /\ ~HasStaticRule(x.text)
  ELSE /\ {<<"root", x.root>>, <<"index index.html index.htm;">>,
           <<"try_files $uri $uri/ =404;">>} \subseteq Lines(x.text)
       /\ ~HasProxyRule(x.text)

C19_ProxyXorStatic ==
  \A i \in 1..Len(rendered) : C19_RulesOf(rendered[i])

\* C19's case: the config of a site with a port was rendered without
\* certificate files, and after a TLS install again with them.
C19_Witness ==
  \E i, j \in 1..Len(rendered) :
    /\ rendered[i].domain = rendered[j].domain
    /\ rendered[i].port # NoPort /\ rendered[j].port # NoPort
    /\ ~rendered[i].tls /\ rendered[j].tls

\* C20: rendering is deterministic and idempotent: of all the configs the
\* renderer has written, whatever ran in between, any two written for the
\* same domain, root, port and presence of the certificate files are the
\* same text, line for line.
C20_RenderIdempotent ==
  \A i, j \in 1..Len(rendered) :
    /\ rendered[i].domain = rendered[j].domain
    /\ rendered[i].root = rendered[j].root
    /\ rendered[i].port = rendered[j].port
    /\ rendered[i].tls = rendered[j].tls
    => rendered[i].text = rendered[j].text

\* C20's case: the config of a site was rendered by its Create and again,
\* from the same root and port, by a later save of the simple-mode editor,
\* and the file holds that text.
C20_Witness ==
  \E r \in Reqs :
    /\ req[r].op = "nginx" /\ req[r].pc = "done"
    /\ Len(rendered) = 2
    /\ rendered[1].domain = req[r].domain /\ rendered[2].domain = req[r].domain
    /\ rendered[1].root = rendered[2].root /\ rendered[1].port = rendered[2].port
    /\ rendered[1].tls = rendered[2].tls
    /\ configs[req[r].domain] = rendered[1].text

\* The domain has a character outside [A-Za-z0-9.-].
HasBadChar(d) ==
  \E i \in 1..Len(DomainChars(d)) : DomainChars(d)[i] \notin AllowedChars

\* The step is the arrival of a request, at slot r, whose domain has a
\* character outside the class.
BadArrival(r) ==
  Acted(r) /\ req[r].pc = "idle" /\ HasBadChar(req'[r].domain)

\* The step changes nothing but the request slots.
NothingTouched ==
  UNCHANGED <<sitesFile, runningProcs, children, killCalled, signalled,
              rootDir, parentDir, configs, sslFiles, rendered>>

\* C15 as stated: at every entry point, a request whose domain has a
\* character outside [A-Za-z0-9.-] is answered InvalidDomain in its first
\* step, before any file has been read or written, any command run, any
\* process started or stopped and any store write.
C15_AsStated ==
  [][\A r \in Reqs :
       BadArrival(r) =>
         /\ req'[r].pc = "done" /\ req'[r].result = "InvalidDomain"
         /\ req'[r].eff = <<>> /\ req'[r].reads = <<>>
         /\ req'[r].spawned = <<>>
         /\ NothingTouched]_vars

\* C15, amended: at every entry point, a request whose domain has a
\* character outside the class is answered in its first step, and the
\* handler has used the domain in no path and no command, written no file
\* of a site, started or stopped no process and not written the store. The
\* answer is InvalidDomain, except for a Run without command, which is
\* answered with the plain redirect. All that may have happened before the
\* answer: GET /nginx and GET /nginx/expert have read the store, and the
\* upload middleware of the TLS install has stored the uploaded bundle.
C15_BadDomainStopsAtEntry ==
  [][\A r \in Reqs :
       BadArrival(r) =>
         /\ req'[r].pc = "done"
         /\ IF req'[r].op = "run" /\ req'[r].cmd = NoCmd
            THEN req'[r].result = "redirect"
            ELSE req'[r].result = "InvalidDomain"
         /\ req'[r].eff
              \in IF req'[r].op = "ssl" THEN {<<>>, <<"upload">>} ELSE {<<>>}
         /\ req'[r].reads
              = IF req'[r].op \in {"get_nginx", "get_expert"}
                THEN <<"sites.json">> ELSE <<>>
         /\ req'[r].spawned = <<>>
         /\ NothingTouched]_vars

\* C15's case: a TLS install for the domain a;b, with a bundle uploaded,
\* was answered InvalidDomain while a site is stored: no certificate file
\* was written.
C15_Witness ==
  \E r \in Reqs :
    /\ req[r].op = "ssl" /\ req[r].pc = "done" /\ HasBadChar(req[r].domain)
    /\ req[r].result = "InvalidDomain" /\ req[r].eff = <<"upload">>
    /\ sitesFile # <<>> /\ sslFiles = {}

\* The indices of the lines that open a server block; the lines of text
\* from index a to index b.
BlockStarts(text) == {i \in 1..Len(text) : text[i] = <<"server {">>}
LinesIn(text, a, b) == {text[i] : i \in a..b}
TlsLines(text) ==
  {l \in Lines(text) : l[1] \in {"ssl_certificate", "ssl_certificate_key",
                                 "listen 443 ssl;"}}

\* The text is two blocks: a plaintext listener that only redirects, then
\* an encrypted listener with the site's rules and the certificate and key
\* locations of its domain.
C21_TwoBlocks(x) ==
  /\ BlockStarts(x.text) = {1, 6}
  /\ LinesIn(x.text, 1, 5) =
       {<<"server {">>, <<"listen 80;">>, <<"server_name", x.domain>>,
        <<"return 301 https://$host$request_uri;">>, <<"}">>}
  /\ LET second == LinesIn(x.text, 6, Len(x.text))
     IN /\ {<<"listen 443 ssl;">>, <<"server_name", x.domain>>,
            <<"ssl_certificate", certPath(x.domain)>>,
            <<"ssl_certificate_key", keyPath(x.domain)>>} \subseteq second
        /\ <<"listen 80;">> \notin second
        /\ <<"return 301 https://$host$request_uri;">> \notin second
        /\ IF x.port # NoPort
           THEN <<"proxy_pass http://127.0.0.1:", x.port>> \in second
           ELSE <<"root", x.root>> \in second
  /\ x.text[Len(x.text)] = <<"}">>

\* The text is one plaintext block without a certificate reference.
C21_OneBlock(x) ==
  /\ BlockStarts(x.text) = {1}
  /\ {<<"listen 80;">>, <<"server_name", x.domain>>} \subseteq Lines(x.text)
  /\ TlsLines(x.text) = {}
  /\ <<"return 301 https://$host$request_uri;">> \notin Lines(x.text)
  /\ IF x.port # NoPort
     THEN <<"proxy_pass http://127.0.0.1:", x.port>> \in Lines(x.text)
     ELSE <<"root", x.root>> \in Lines(x.text)

\* C21: whenever the renderer writes a config: if both <domain>.crt and
\* <domain>.key exist at that moment the config is exactly two blocks, a
\* plaintext listener that only redirects and an encrypted listener with
\* the proxy or static rules and the certificate and key locations derived
\* from the domain; if either file is absent it is a single plaintext block
\* with no certificate reference.
C21_TlsBlocksIffBothFiles ==
  [][Len(rendered') > Len(rendered) =>
       LET x == rendered'[Len(rendered')]
           both == certPath(x.domain) \in sslFiles'
                     /\ keyPath(x.domain) \in sslFiles'
       IN /\ configs'[x.domain] = x.text
          /\ IF both THEN C21_TwoBlocks(x) ELSE C21_OneBlock(x)]_vars

\* C21's case: a config was rendered as a single plaintext block for a
\* domain of which only the certificate file exists, not the key.
C21_Witness ==
  \E i \in 1..Len(rendered) :
    /\ certPath(rendered[i].domain) \in sslFiles
    /\ keyPath(rendered[i].domain) \notin sslFiles
    /\ C21_OneBlock(rendered[i])
    /\ configs[rendered[i].domain] = rendered[i].text

\* The probes a listing can hold in the checked configurations.
ProbeSlots == 1..2

\* Every probe has no verdict yet or one verdict of level ok, warning or
\* error, and has none only as long as its request has had no outcome.
C22_OneVerdict ==
  \A i \in ProbeIds :
    LET p == listing.probes[i] IN
    /\ p.verdict.level \in {"none", "ok", "warning", "error"}
    /\ (p.verdict = NoVerdict <=> (p.requested /\ p.events = 0))
    /\ (listing.pc \in {"ip", "done"} => listing.statuses[i] = p.verdict)

\* C22: check(site) always ends in exactly one verdict of ok, warning or
\* error, whatever the disk holds and whichever outcome events (response,
\* connection error, timeout, several of them in any order) its request
\* has: a probe that is pending gets a verdict, the verdict is the one of
\* the first outcome event, and later events do not change it.
C22_ProbeTotal ==
  /\ []C22_OneVerdict
  /\ [][\A i \in ProbeIds :
          (Settled(i) /\ listing'.pc # "idle")
            => listing'.probes[i].verdict = listing.probes[i].verdict]_vars
  /\ \A i \in ProbeSlots :
       (i \in ProbeIds /\ Pending(i)) ~> (i \in ProbeIds /\ Settled(i))

\* C22's case: a probe's request timed out and had a second outcome event
\* afterwards; the page shows the timeout verdict.
C22_Witness ==
  \E i \in ProbeIds :
    /\ listing.pc = "done"
    /\ listing.probes[i].first = <<"timeout">>
    /\ listing.probes[i].events = 2
    /\ listing.statuses[i] = [level |-> "warning", message |-> <<"Timeout">>]

\* C23: of a probe whose request was sent (root and config both exist):
\* a connection failure gives warning 'Request failed', a timeout warning
\* 'Timeout', a response with status >= 400 warning 'HTTP <status>', a
\* response with status < 400 ok 'Site reachable'; the level error never
\* comes from a network outcome.
C23_VerdictOfOutcome ==
  \A i \in ProbeIds :
    LET p == listing.probes[i] IN
    p.requested =>
      /\ p.verdict.level # "error"
      /\ (p.first = <<"error">> => p.verdict = [level |-> "warning",
                                               message |-> <<"Request failed">>])
      /\ (p.first = <<"timeout">> => p.verdict = [level |-> "warning",
                                                 message |-> <<"Timeout">>])
      /\ \A s \in Statuses :
           p.first = <<"response", s>> =>
             IF s >= 400
             THEN p.verdict = [level |-> "warning", message |-> <<"HTTP", s>>]
             ELSE p.verdict = [level |-> "ok", message |-> <<"Site reachable">>]

\* C23's case: of two probes one got a response with status 399 and the
\* other one with status 400.
C23_Witness ==
  \E i, j \in ProbeIds :
    /\ listing.probes[i].first = <<"response", 399>>
    /\ listing.probes[i].verdict.level = "ok"
    /\ listing.probes[j].first = <<"response", 400>>
    /\ listing.probes[j].verdict = [level |-> "warning", message |-> <<"HTTP", 400>>]

\* C24: when GET / starts its probes, a site whose root or whose rendered
\* config is absent gets error 'Missing files or config' and no request is
\* sent for it; a request is sent exactly for the sites that have both, and
\* none is sent later.
C24_NoRequestWithoutFiles ==
  [][/\ (listing.pc = "idle" /\ listing'.pc = "probing") =>
          \A i \in 1..Len(listing'.probes) :
            LET site == listing'.sites[i]
                p == listing'.probes[i]
            IN IF rootDir[site.root].kind = "absent"
                    \/ configs[site.domain] = NoConfig
               THEN /\ ~p.requested /\ p.events = 0
                    /\ p.verdict = [level |-> "error",
                                    message |-> <<"Missing files or config">>]
               ELSE p.requested /\ p.verdict = NoVerdict
     /\ (listing.pc # "idle" /\ listing'.pc # "idle") =>
          \A i \in ProbeIds :
            /\ listing'.probes[i].requested = listing.probes[i].requested
            /\ (~listing.probes[i].requested => listing'.probes[i].events = 0)]_vars

\* C24's case: of two listed sites one has its root but no config and gets
\* the error verdict without a request, the other has both and is probed.
C24_Witness ==
  \E i, j \in ProbeIds :
    /\ listing.pc = "done"
    /\ rootDir[listing.sites[i].root].kind # "absent"
    /\ configs[listing.sites[i].domain] = NoConfig
    /\ ~listing.probes[i].requested
    /\ listing.statuses[i].level = "error"
    /\ listing.probes[j].requested /\ listing.probes[j].events > 0

\* C25: every site of the list was saved by a Create after its fetch and
\* its render (whether or not the gateway then accepted the config), and
\* nothing but the engine touches roots and configs: no probe of a listed
\* site yields the error verdict.
C25_NoErrorAfterCreate ==
  \A i \in ProbeIds : listing.probes[i].verdict.level # "error"

\* C26: the probe is read-only: no step of GET / (which probes every listed
\* site in parallel) and no outcome event of a probe's request changes the
\* persisted list, the process table, the processes, the rendered configs,
\* the roots or the certificate files.
C26_ProbeReadOnly ==
  [][listing' # listing =>
       UNCHANGED <<sitesFile, runningProcs, children, killCalled, signalled,
                   configs, rendered, rootDir, parentDir, sslFiles>>]_vars

\* C26's case: GET / has listed a stored site that has a tracked process
\* and a config, its probe's request has had an outcome, and the page is
\* ready.
C26_Witness ==
  \E i \in ProbeIds :
    /\ listing.pc = "done"
    /\ listing.probes[i].requested /\ listing.probes[i].events > 0
    /\ HasSite(sitesFile, listing.probes[i].domain)
    /\ runningProcs[listing.probes[i].domain] # NoChild
    /\ configs[listing.probes[i].domain] # NoConfig

\* The records of list other than the one of domain d are in list2,
\* unchanged.
KeepsOthers(list, list2, d) ==
  \A i \in 1..Len(list) :
    list[i].domain # d => \E j \in 1..Len(list2) : list2[j] = list[i]

\* C27: while sites.json does not parse, loadSites() returns the list most
\* recently loaded or saved (what the file held when it last parsed), not
\* an empty list and not a failure; and the save of a Create or a Delete
\* made while the file does not parse writes a list derived from that one:
\* every record other than the deleted one is still there, and a Create
\* has added its own.
C27_LastKnownGood ==
  /\ [](malformed => loadSites = sitesFile)
  /\ [][(malformed /\ ~malformed') =>
          \E r \in Reqs :
            /\ Acted(r)
            /\ req'[r].op \in {"new", "delete"}
            /\ KeepsOthers(sitesFile, sitesFile',
                           IF req'[r].op = "delete" THEN req'[r].domain ELSE "")
            /\ (req'[r].op = "new" => HasSite(sitesFile', req'[r].domain))
            /\ (req'[r].op = "delete" => ~HasSite(sitesFile', req'[r].domain))]_vars

\* C27's case: the store held two sites, the file went bad, and a Delete
\* that got the cached list has saved the other site.
C27_Witness ==
  \E r \in Reqs :
    /\ req[r].op = "delete" /\ req[r].pc = "done"
    /\ req[r].reads = <<"sites.json", "cachedSites">>
    /\ req[r].domain = "a.test"
    /\ sitesFile = <<SiteB>> /\ ~malformed

\* What a Run of a stored site with a command does to the processes: the
\* tracked child of the domain, if any, has been sent the signal, and one
\* child is launched with the given command in the site's root and is the
\* tracked one.
C28_RunStarts(r) ==
  LET d == req'[r].domain
      site == FindSite(sitesFile, d)
  IN /\ Len(Launched) = 1
     /\ Launched[1].cmd = req'[r].cmd
     /\ Launched[1].cwd = site.root
     /\ runningProcs'[d] = Len(children')
     /\ (runningProcs[d] # NoChild => runningProcs[d] \in killCalled')

\* What a Stop does: the tracked child of the domain, if any, has been
\* sent the signal and the entry is gone; nothing is launched.
C28_StopStops(r) ==
  LET d == req'[r].domain
  IN /\ Launched = <<>>
     /\ runningProcs'[d] = NoChild
     /\ (runningProcs[d] # NoChild => runningProcs[d] \in killCalled')

\* C28: manual Run and Stop are passthroughs. Run of a stored site starts
\* the given command in the site's root, stopping any tracked process of
\* the domain first; Stop stops the tracked process. Neither fetches,
\* removes a root, installs, renders or calls the gateway, neither touches
\* roots or configs, and neither changes the store: the stored start
\* command is not replaced by the command given to Run.
C28_RunStopPassthrough ==
  [][\A r \in Reqs :
       (Acted(r) /\ req'[r].op \in {"run", "stop"} /\ req'[r].pc = "done") =>
         /\ UNCHANGED <<sitesFile, rootDir, parentDir, configs, sslFiles, rendered>>
         /\ Tags(req'[r].eff) \subseteq {"kill", "kill_failed", "spawn"}
         /\ \A q \in Reqs \ {r} : req'[q] = req[q]
         /\ (req'[r].op = "run" /\ req'[r].cmd # NoCmd
               /\ isValidDomain(req'[r].domain)
               /\ HasSite(sitesFile, req'[r].domain)) => C28_RunStarts(r)
         /\ (req'[r].op = "run" /\ ~(req'[r].cmd # NoCmd
               /\ isValidDomain(req'[r].domain)
               /\ HasSite(sitesFile, req'[r].domain)))
              => UNCHANGED <<runningProcs, children, killCalled>>
         /\ (req'[r].op = "stop" /\ isValidDomain(req'[r].domain))
              => C28_StopStops(r)]_vars

\* C28's case: Run was given a command other than the stored start command
\* of a site whose process was tracked: the old process was signalled, the
\* new one runs the given command in the site's root, and the record still
\* has its own start command.
C28_Witness ==
  \E r \in Reqs :
    LET d == req[r].domain IN
    /\ req[r].op = "run" /\ req[r].pc = "done"
    /\ HasSite(sitesFile, d)
    /\ FindSite(sitesFile, d).cmd # req[r].cmd
    /\ Tags(req[r].eff) = {"kill", "spawn"}
    /\ runningProcs[d] = Len(children)
    /\ children[runningProcs[d]].cmd = req[r].cmd
    /\ children[runningProcs[d]].cwd = FindSite(sitesFile, d).root

\* The children of handler rq whose launch has failed.
FailedLaunches(rq) == {rq.spawned[i] : i \in 1..Len(rq.spawned)} \cap errored

\* C29: a launch failure is never a synchronous error of the start. The
\* step of a Create, an Update or a Run that launches a child does not end
\* in an error response; the failure arrives later as an event that only
\* adds a log entry, changing no handler, no table and no file; and a
\* handler whose child failed to launch completes with the response it
\* gives otherwise: the redirect for Run and Update, for Create the
\* redirect unless the gateway call failed.
C29_LaunchFailureIsLogged ==
  /\ [][/\ \A r \in Reqs :
             (Acted(r) /\ Len(req'[r].spawned) > Len(req[r].spawned)) =>
               /\ req'[r].op \in {"new", "update", "run"}
               /\ req'[r].pc \in {"c_enable", "done"}
               /\ (req'[r].pc = "done" => req'[r].result = "redirect")
        /\ (errored' # errored =>
              UNCHANGED <<req, sitesFile, runningProcs, children, killCalled,
                          signalled, rootDir, configs, sslFiles>>)]_vars
  /\ [](\A r \in Reqs :
          (req[r].pc = "done" /\ FailedLaunches(req[r]) # {}) =>
            IF req[r].op = "new"
            THEN /\ req[r].result \in {"redirect", "ReloadFailure"}
                 /\ (req[r].result = "redirect" <=> "enable" \in Tags(req[r].eff))
            ELSE req[r].result = "redirect")

\* C29's case: the launch of the child that a Create started has failed,
\* the failure was logged while the Create went on, and the Create has
\* answered with its redirect; the failed child is still the tracked one.
C29_Witness ==
  \E r \in Reqs :
    /\ req[r].op = "new" /\ req[r].pc = "done" /\ req[r].result = "redirect"
    /\ Len(req[r].spawned) = 1
    /\ req[r].spawned[1] \in errored
    /\ runningProcs[req[r].domain] = req[r].spawned[1]

\* The step of Update that restarts the site and answers with the redirect.
C30_Restarts(r) ==
  /\ req[r].op = "update"
  /\ req[r].pc # "done"
  /\ req'[r].pc = "done"
  /\ req'[r].result = "redirect"

\* The children Create would launch from form f at the end of its own
\* handler, over the working tree the step leaves in the site's root.
C30_CreateWouldLaunch(r, f) ==
  LET rs == rootDir'[f.root]
      w == NewStart(World(r), f, rs,
                    IF hasReq(rs) THEN pythonEntryOf(rs) ELSE NoEntry, TRUE)
  IN SubSeq(w.children, Len(children) + 1, Len(w.children))

\* C30: Update re-derives the start strategy exactly as Create does: when
\* Update restarts a site whose record is the one Create stores for a form,
\* over the same working tree, the processes it launches (command, working
\* directory and PORT value) are those Create would have launched from that
\* form.
C30_UpdateStartsAsCreate ==
  [][\A r \in Reqs :
       C30_Restarts(r) =>
         \A f \in NewForms :
           NewSite(f) = UpdateSite(r) => Launched = C30_CreateWouldLaunch(r, f)]_vars

\* C31: for both start strategies, the environment of a launched process has
\* PORT equal to the site's port exactly when the port is set: every child a
\* step launches for a stored site carries the text of the stored port, and
\* no PORT of its own when the record has no port.
C31_PortOfSite ==
  [][\A i \in 1..Len(Launched) :
       HasSite(sitesFile', Launched[i].domain) =>
         Launched[i].envPort =
           PortText(FindSite(sitesFile', Launched[i].domain).port)]_vars

\* C32: the in-memory log never holds more than 200 entries: after any
\* sequence of console.log and console.error calls it holds exactly the most
\* recent min(n, 200) of the n entries logged, in the order they were logged.
C32_LastEntries ==
  LET n == Len(logged)
      k == IF n < LogCap THEN n ELSE LogCap
  IN /\ Len(logs) <= LogCap
     /\ logs = SubSeq(logged, n - k + 1, n)

\* More calls than the store holds have been made, entries of both levels
\* among them, and an error entry is still held.
C32_Witness ==
  /\ Len(logged) = LogCap + 2
  /\ logged[1].level = "error"
  /\ \E i \in 1..Len(logs) : logs[i].level = "error"
  /\ logs[1].level = "log"

\* C33: the port suggested by the new-site form is the smallest integer
\* >= 3001 that is not the port of any stored site: it is never a port in
\* use, every port from 3001 up to it is in use, and the search ends within
\* one step per stored site.
C33_SmallestFreePort ==
  \A r \in Reqs :
    req[r].op = "get_new" /\ req[r].pc = "done" =>
      LET used == UsedPorts(req[r].sites)
          p == Number(req[r].port)
      IN /\ p >= FirstPort
         /\ p \notin used
         /\ \A q \in FirstPort..(p - 1) : q \in used
         /\ p <= FirstPort + Len(req[r].sites)

\* The form was asked for while 3001 and 3003 were in use: 3002 is free
\* below the largest port in use.
C33_Witness ==
  \E r \in Reqs :
    /\ req[r].op = "get_new"
    /\ req[r].pc = "done"
    /\ UsedPorts(req[r].sites) = {FirstPort, FirstPort + 2}
    /\ Number(req[r].port) = FirstPort + 1

\* Every process started for d so far was started by the custom command.
C34_AllCustom(d) ==
  \A i \in 1..Len(children) :
    children[i].domain = d => children[i].via = "runSiteCommand"

\* C34: the custom-command start runs without yielding: however Run, Update
\* and Create requests that start a domain by its custom command interleave,
\* between any two handler steps the domain's tracked process, once one was
\* started, is the one started last, and process.kill was called on the
\* group of every process started for the domain before it.
C34_CustomStartAtomic ==
  \A d \in DomainInputs :
    C34_AllCustom(d) /\ LastChildOf(d) # NoChild =>
      /\ runningProcs[d] = LastChildOf(d)
      /\ \A i \in 1..Len(children) :
           children[i].domain = d /\ i # LastChildOf(d) => i \in killCalled

\* Two requests in flight at the same time have each started the same domain
\* by a custom command.
C34_Witness ==
  \E d \in DomainInputs :
    /\ C34_AllCustom(d)
    /\ \A r \in Reqs :
         /\ req[r].pc \notin {"idle", "done"}
         /\ req[r].domain = d
         /\ req[r].spawned # <<>>

\* The domains of the persisted list.
C35_Stored(sites) == {sites[i].domain : i \in 1..Len(sites)}

\* Slot r takes the step of Create that persists its record.
C35_Persists(r) ==
  req[r].op = "new" /\ req[r].pc # "c_enable" /\ req'[r].pc = "c_enable"

\* Slot r takes the step of Delete that rewrites the list.
C35_Deletes(r) ==
  req[r].pc = "idle" /\ req'[r].op = "delete" /\ req'[r].result = "redirect"

\* C35: the site store reflects every completed Create and Delete under any
\* interleaving of requests for distinct domains: the step in which a Create
\* persists its record adds its domain to the persisted ones and loses no
\* other, a Delete removes its domain and no other, and no other step changes
\* the persisted domains, so that once all requests have completed the list
\* holds exactly the domains created and not deleted afterwards.
C35_StoreReflectsRequests ==
  [][\A r \in Reqs :
       /\ Acted(r)
       /\ \A q \in Reqs \ {r} :
            req[q].pc # "idle" => req[q].domain # req'[r].domain
       => C35_Stored(sitesFile') =
            IF C35_Persists(r)
            THEN C35_Stored(sitesFile) \cup {req[r].domain}
            ELSE IF C35_Deletes(r)
            THEN C35_Stored(sitesFile) \ {req'[r].domain}
            ELSE C35_Stored(sitesFile)]_vars

\* C36: the tracked entry of a domain changes only by a stop of that domain,
\* which removes it, or by a start for that domain, which replaces it. A
\* step that changes the entry of d is a step of a handler working on d; an
\* entry that goes was passed to process.kill by that step, and an entry
\* that comes is a child the step launched for d. Neither a launch failure
\* nor the exit of a process changes any entry.
C36_EntryChangesByStartOrStop ==
  [][/\ \A d \in DomainInputs :
          runningProcs'[d] # runningProcs[d] =>
            /\ \E r \in Reqs : Acted(r) /\ req'[r].domain = d
            /\ IF runningProcs'[d] = NoChild
               THEN runningProcs[d] \in killCalled' \ killCalled
               ELSE /\ runningProcs'[d] > Len(children)
                    /\ children'[runningProcs'[d]].domain = d
     /\ (exited' # exited \/ errored' # errored) => UNCHANGED runningProcs
    ]_vars

\* A tracked process has exited and is still the tracked one of its domain,
\* after a Stop of another domain has been answered.
C36_Witness ==
  \E d \in DomainInputs, r \in Reqs :
    /\ runningProcs[d] # NoChild
    /\ runningProcs[d] \in exited
    /\ req[r].op = "stop"
    /\ req[r].pc = "done"
    /\ req[r].result = "redirect"
    /\ req[r].domain # d

\* Slot r answers a request for a valid domain whose site was deleted while
\* its process stayed tracked.
C37_AfterDelete(r) ==
  /\ Acted(r)
  /\ req[r].pc = "idle"
  /\ req'[r].pc = "done"
  /\ isValidDomain(req'[r].domain)
  /\ ~HasSite(sitesFile, req'[r].domain)
  /\ runningProcs[req'[r].domain] # NoChild

\* C37: Stop does not depend on the site store while Run does. After the
\* Delete of a site whose process is tracked, a Stop of the domain still
\* calls process.kill on the process group and removes the tracked entry,
\* whereas a Run of the domain with a command starts no process and leaves
\* the process table as it was.
C37_StopWithoutStore ==
  [][\A r \in Reqs :
       C37_AfterDelete(r) =>
         /\ req'[r].op = "stop" =>
              /\ runningProcs'[req'[r].domain] = NoChild
              /\ runningProcs[req'[r].domain] \in killCalled' \ killCalled
              /\ Launched = <<>>
         /\ req'[r].op = "run" =>
              /\ req'[r].result = "redirect"
              /\ UNCHANGED <<runningProcs, children, killCalled, signalled>>
    ]_vars

\* The site was deleted with its process tracked, and a Stop of the domain
\* that followed has signalled the process and removed the entry.
C37_Witness ==
  \E r \in Reqs :
    /\ req[r].op = "stop"
    /\ req[r].pc = "done"
    /\ ~HasSite(sitesFile, req[r].domain)
    /\ Tags(req[r].eff) = {"kill"}
    /\ runningProcs[req[r].domain] = NoChild
    /\ \E c \in signalled : children[c].domain = req[r].domain

\* Both TLS files of the domain are present.
C38_HasTls(d) == certPath(d) \in sslFiles /\ keyPath(d) \in sslFiles

\* No operation is under way.
C38_Settled == \A r \in Reqs : req[r].pc \in {"idle", "done"}

\* C38: config and record stay consistent. After any sequence of Creates,
\* simple-mode edits and TLS installs, the config of every stored site is
\* the rendering of its stored record with the TLS files now present, and it
\* has proxy rules exactly when the record has a port; and a simple-mode
\* edit of a valid domain that is not stored changes neither the store nor
\* any config.
C38_ConfigMatchesRecord ==
  /\ [](C38_Settled =>
          \A i \in 1..Len(sitesFile) :
            LET site == sitesFile[i] IN
            /\ configs[site.domain] = configText(site, C38_HasTls(site.domain))
            /\ HasProxyRule(configs[site.domain]) <=> site.port # NoPort)
  /\ [][\A r \in Reqs :
         /\ Acted(r)
         /\ req[r].pc = "idle"
         /\ req'[r].op = "nginx"
         /\ ~HasSite(sitesFile, req'[r].domain)
         => UNCHANGED <<sitesFile, configs, rendered>>]_vars

\* A simple-mode edit has changed the port of a site that a Create had
\* stored and rendered: the config was rendered a second time and is the
\* rendering of the record now stored.
C38_Witness ==
  \E r \in Reqs :
    /\ req[r].op = "nginx"
    /\ req[r].pc = "done"
    /\ HasSite(sitesFile, req[r].domain)
    /\ Len(rendered) = 2
    /\ rendered[1].port # FindSite(sitesFile, req[r].domain).port
    /\ configs[req[r].domain] =
         configText(FindSite(sitesFile, req[r].domain),
                    C38_HasTls(req[r].domain))

====
